---- MODULE Spec2Model ----
(***************************************************************************)
(* A model of the screenwriting converters: the ODT style resolver and the *)
(* read-direction engine of odf2fountain.py, and the emphasis codec and    *)
(* the write-direction engine of fountain2odf.py.                          *)
(*                                                                         *)
(* Python values are modelled as follows.  None is the empty tuple and a   *)
(* value v that may be None is the one-element tuple <<v>>.  A string that *)
(* the code scans character by character is a sequence of one-character    *)
(* strings.  An object is named by its style name; the table objs maps the *)
(* name of every constructed OdtStyle to its fields.  An uncaught Python   *)
(* exception stops the run: err holds its name and pc becomes "crashed".   *)
(***************************************************************************)
EXTENDS Integers, Sequences, FiniteSets, TLC

VARIABLES
    pc,                \* position of the run
    err,               \* "" or the name of the uncaught exception
    objs,              \* every constructed OdtStyle, by name
    all_styles,        \* OdtStyle.all_styles: <<[key, obj]>> in insertion order
    styles_to_parent,  \* OdtStyle.styles_to_parent: object names, in order
    current_style,     \* OdtXmlStyleHandler.current_style: None or <<name>>
    building_style,    \* OdtXmlStyleHandler.building_style
    part,              \* the part of the file being parsed: "styles" or "content"
    decls,             \* the style declarations read so far, in order
    emphasis_substrs,  \* FountainProcessor.emphasis_substrs: the marker rules
    max_auto_style,    \* FountainProcessor.max_auto_style
    automatic_styles,  \* the automatic text styles inserted in the document
    emph_line,         \* the line given to the last call of emphasise
    emph_result,       \* the string the last call of emphasise returned
    emph_before,       \* history: the required_before of that call
    emph_spans,        \* history: the spans that call made, in the order of
                       \* their making: [style, settings]
    lines,             \* FountainProcessor.lines: the lines of the file
    linenr,            \* FountainProcessor.linenr, counted from 0
    maxline,           \* FountainProcessor.maxline
    style,             \* FountainProcessor.style
    last_style,        \* FountainProcessor.last_style
    blank_pending,     \* FountainProcessor.blank_pending
    blank,             \* FountainProcessor.blank
    last_blank,        \* FountainProcessor.last_blank
    page_break_required, \* FountainProcessor.page_break_required
    last_title_style,  \* FountainProcessor.last_title_style
    docbody,           \* the paragraphs of the document: <<[style, text]>>
    files_read,        \* history: the number of files process_files has read
    file_lines,        \* history: the lines given to the last call of
                       \* process_file_contents
    file_start,        \* history: the number of paragraphs of the document
                       \* at that call
    forcetypes,        \* user_options.forcetypes
    extendedfountain,  \* user_options.extendedfountain
    state,             \* OdtXmlTextHandler.state
    groups,            \* OdtXmlTextHandler.r (groups in odf2fountain_main):
                       \* the lists of lines, by state
    text_data,         \* OdtXmlTextHandler.data
    in_text,           \* OdtXmlTextHandler.in_text
    last_line_blank,   \* OdtXmlTextHandler.last_line_blank
    last_rule,         \* OdtXmlTextHandler.last_rule: the name of the rule
    last_character,    \* OdtXmlTextHandler.last_character
    body_types,        \* history: for each line of groups[BODY], the fountain type
                       \* outputFountainPart gave it, "" for a line of spacing
                       \* or a page break
    paragraphs,        \* history: the number of paragraphs read
    previous_style,    \* history: current_style in the paragraph before this one
    lib_call,          \* the last call of a function of odf_fountain_lib:
                       \* [fn, args]
    lib_result,        \* what that call returned
    pass_queue,        \* post_process_styles: this_pass of the loop it is in
    pass_pos,          \* the position in this_pass of the for loop, from 1
    pass_next,         \* next_pass of that loop
    spans,             \* OdtXmlTextHandler.spans
    span_log,          \* history: the spans startElementNS was called for:
                       \* [flags, open_text, close_text, ended]
    span_stack         \* history: the positions in span_log of the spans
                       \* that are open, the innermost last

resolver_vars == <<pc, err, objs, all_styles, styles_to_parent, current_style,
                   building_style, part, decls>>
codec_vars == <<emphasis_substrs, max_auto_style, automatic_styles, emph_line,
                emph_result, emph_before, emph_spans>>

engine_vars == <<lines, linenr, maxline, style, last_style, blank_pending, blank,
                 last_blank, page_break_required, last_title_style, docbody,
                 files_read, file_lines, file_start>>

reader_vars == <<forcetypes, extendedfountain, state, groups, text_data, in_text,
                 last_line_blank, last_rule, last_character, body_types,
                 paragraphs, previous_style>>

lib_vars == <<lib_call, lib_result>>

post_vars == <<pass_queue, pass_pos, pass_next>>

span_vars == <<spans, span_log, span_stack>>

vars == <<resolver_vars, codec_vars, engine_vars, reader_vars, lib_vars, post_vars, span_vars>>

(***************************************************************************)
(* Bounds of the model.                                                    *)
(***************************************************************************)
MaxStyles == 3

None == <<>>
Some(v) == <<v>>

(***************************************************************************)
(* lib/odf_fountain_lib.py                                                 *)
(***************************************************************************)
\* coalesce with its arguments taken in the wrong order
coalesce_parent_first(a, b) == IF b # None THEN b ELSE a

\* the values of the model that Python takes as false in a condition:
\* False, 0 and the empty string, as the text of their literals
Falsy == {"False", "0", "''"}

\* coalesce with the test of line 38 as "if i:"
RECURSIVE coalesce_truthy(_)
coalesce_truthy(args) ==
    IF args = <<>> THEN None
    ELSE IF Head(args) # None /\ Head(args)[1] \notin Falsy THEN Head(args)
    ELSE coalesce_truthy(Tail(args))

\* coalesce(*args): the for loop of lines 37-39 and the return of line 40
RECURSIVE coalesce_args(_)
coalesce_args(args) ==
    IF args = <<>> THEN None
    ELSE IF Head(args) # None THEN Head(args)
    ELSE coalesce_args(Tail(args))

\* coalesce(a, b): the first argument that is not None
coalesce(a, b) == coalesce_args(<<a, b>>)

\* the units to_points knows; cm and mm have non-integer factors and are
\* left out of the inputs
measurement_factors(uom) ==
    CASE uom = "pt" -> 1
      [] uom = "pc" -> 12
      [] uom = "in" -> 72
      [] OTHER -> 1

\* an attribute value is [text, num, uom]: its text and, for a measure, the
\* number and the two-letter unit the text is made of
Text(t) == [text |-> t, num |-> 0, uom |-> ""]
Measure(n, u) == [text |-> "measure", num |-> n, uom |-> u]

to_points(value) == value.num * measurement_factors(value.uom)

(***************************************************************************)
(* fountain2odf.py: StyleFlags and the marker rules                        *)
(***************************************************************************)
\* StyleFlags: a flag value is the set of its primary flags, | is \cup and
\* & is \cap
NONE == {}
UNDERLINE == {"underline"}
ITALIC == {"italic"}
BOLD == {"bold"}
BOLD_UNDERLINE == BOLD \cup UNDERLINE
BOLD_ITALIC == BOLD \cup ITALIC
BOLD_ITALIC_UNDERLINE == BOLD \cup ITALIC \cup UNDERLINE

\* one entry of emphasis_substrs: [start, end, style, code]
Rule(match_str, end_str, settings) ==
    [match_str |-> match_str, end_str |-> end_str, style |-> None,
     settings |-> settings]

\* FountainProcessor.emphasis_substrs as the class body defines it
emphasis_substrs_initial ==
    << Rule(<<"_", "*", "*", "*">>, <<"*", "*", "*", "_">>, BOLD_ITALIC_UNDERLINE),
       Rule(<<"*", "*", "*">>, <<"*", "*", "*">>, BOLD_ITALIC),
       Rule(<<"_", "*", "*">>, <<"*", "*", "_">>, BOLD_UNDERLINE),
       Rule(<<"*", "*">>, <<"*", "*">>, BOLD),
       Rule(<<"*">>, <<"*">>, ITALIC),
       Rule(<<"_">>, <<"_">>, UNDERLINE) >>

(***************************************************************************)
(* odf2fountain.py: the semantic rules                                     *)
(***************************************************************************)
Sentinels == {"Standard", "Script_20_Elements"}

\* style_to_fountain.get(name): the name of the rule, or None
style_to_fountain(name) ==
    CASE name = "Title" -> Some("Title")
      [] name = "Subtitle" -> Some("Subtitle")
      [] name = "Title_20_Line" -> Some("Subtitle")
      [] name = "Script_20_Elements" -> Some("Null")
      [] name = "Standard" -> Some("Null")
      [] name = "Action" -> Some("Action")
      [] name = "Centered" -> Some("Centred")
      [] name = "Character" -> Some("Character")
      [] name = "Dialogue" -> Some("Dialogue")
      [] name = "Lyrics" -> Some("Lyrics")
      [] name = "Notes" -> Some("Notes")
      [] name = "Parenthetical" -> Some("Parenthetical")
      [] name = "Heading" -> Some("Null")
      [] name = "Scene_20_Heading" -> Some("Scene")
      [] name = "Scene" -> Some("Scene")
      [] name = "Transition" -> Some("Transition")
      [] OTHER -> None

\* 'TITLE' in name.upper(), for the names of the model
NameHasTitle(name) ==
    name \in {"Title", "Subtitle", "Title_20_Line", "Title_20_Line_20_Centered",
              "Title_20_Ends"}

\* '_20_' in name, for the names of the model
NameHas20(name) ==
    name \in {"Script_20_Elements", "Title_20_Line", "Title_20_Line_20_Centered",
              "Title_20_Ends", "Scene_20_Heading", "Scene_20_Heading_20_PB",
              "Character_20_PB", "Action_20_PB", "Dialogue_20_PB",
              "Scene_20_Heading_20_ATi"}

\* the style:display-name the templates give a style (name when there is none)
DisplayName(name) ==
    CASE name = "Script_20_Elements" -> "Script Elements"
      [] name = "Title_20_Line" -> "Title Line"
      [] name = "Title_20_Line_20_Centered" -> "Title Line Centered"
      [] name = "Title_20_Ends" -> "Title Ends"
      [] name = "Scene_20_Heading" -> "Scene Heading"
      [] name = "Scene_20_Heading_20_PB" -> "Scene Heading PB"
      [] name = "Character_20_PB" -> "Character PB"
      [] name = "Action_20_PB" -> "Action PB"
      [] name = "Dialogue_20_PB" -> "Dialogue PB"
      [] name = "Scene_20_Heading_20_ATi" -> "Scene Heading ATi"
      [] OTHER -> name

(***************************************************************************)
(* odf2fountain.py: class OdtStyle                                         *)
(***************************************************************************)
\* the attributes maybe_inherit_from_parent coalesces
StyleAttrs ==
    {"fountain_info", "italic", "bold", "underline", "uppercase", "align",
     "border_line_width", "border", "margin_left", "margin_right",
     "margin_top", "margin_bottom", "page_break", "is_title"}

\* OdtStyle.all_styles.get(key): None or <<object name>>
RECURSIVE all_styles_get(_, _)
all_styles_get(table, key) ==
    IF table = <<>> THEN None
    ELSE IF Head(table).key = key THEN Some(Head(table).obj)
    ELSE all_styles_get(Tail(table), key)

\* OdtStyle.all_styles[key] = obj: a new key goes last, a known key keeps its place
all_styles_set(table, key, obj) ==
    IF \E i \in 1..Len(table) : table[i].key = key
    THEN [i \in 1..Len(table) |->
            IF table[i].key = key THEN [key |-> key, obj |-> obj] ELSE table[i]]
    ELSE Append(table, [key |-> key, obj |-> obj])

\* the keys of a dict, in iteration order
Keys(table) == [i \in 1..Len(table) |-> table[i].key]

\* the object a reference names; self is the object under construction
Deref(os, self, ref) == IF ref = self.name THEN self ELSE os[ref]

\* OdtStyle.__init__, lines 170-182: the fields every style starts with
OdtStyle_common(name, parent_name, display_name) ==
    [name |-> name,
     display_name |-> coalesce(Some(display_name), Some(name))[1],
     fountain_info |-> style_to_fountain(name),
     heritage_loaded |-> FALSE,
     margin_left |-> None, margin_right |-> None,
     margin_top |-> None, margin_bottom |-> None,
     parent_name |-> parent_name,
     bold |-> None, italic |-> None, underline |-> None]

\* OdtStyle.__init__, lines 183-212, found = all_styles.get(parent_name).
\* f @@ g keeps f where both are defined: the branch's fields come first.
\* base_parent = None stands for an attribute that was never assigned
\* (reading it raises AttributeError).
OdtStyle_branch(common, found) ==
    IF common.name \in Sentinels
    THEN [parent_name |-> common.name, parent |-> Some(common.name),
          base_parent_name |-> common.name, base_parent |-> Some(common.name),
          is_base |-> TRUE, heritage_loaded |-> TRUE,
          fountain_info |-> IF common.fountain_info = None
                            THEN Some("Null") ELSE common.fountain_info,
          italic |-> Some(FALSE), uppercase |-> Some(FALSE),
          align |-> Some("left"), border_line_width |-> Some("0cm"),
          border |-> Some("0.1pt double #000000"),
          page_break |-> Some(FALSE), is_title |-> Some(FALSE)] @@ common
    ELSE [is_base |-> FALSE,
          \* assign_parent_by_name(parent_name)
          parent |-> found,
          base_parent |-> found,
          base_parent_name |-> IF found # None THEN found[1]
                               ELSE common.parent_name,
          uppercase |-> None, align |-> None, border_line_width |-> None,
          border |-> None, page_break |-> None,
          is_title |-> IF NameHasTitle(common.name) THEN Some(TRUE) ELSE None]
         @@ common

\* OdtStyle.__init__ up to the end of its if/else: the fields before any
\* inheritance
OdtStyle_fields(table, name, parent_name, display_name) ==
    OdtStyle_branch(OdtStyle_common(name, parent_name, display_name),
                    all_styles_get(table, parent_name))

\* OdtStyle.maybe_inherit_from_parent, p the parent object
maybe_inherit_from_parent(s, p) ==
    IF s.parent # None /\ p.heritage_loaded
    THEN [s EXCEPT
            !.heritage_loaded = TRUE,
            !.fountain_info = coalesce(@, p.fountain_info),
            !.italic = coalesce(@, p.italic),
            !.bold = coalesce(@, p.bold),
            !.underline = coalesce(@, p.underline),
            !.uppercase = coalesce(@, p.uppercase),
            !.align = coalesce(@, p.align),
            !.border_line_width = coalesce(@, p.border_line_width),
            !.border = coalesce(@, p.border),
            !.margin_left = coalesce(@, p.margin_left),
            !.margin_right = coalesce(@, p.margin_right),
            !.margin_top = coalesce(@, p.margin_top),
            !.margin_bottom = coalesce(@, p.margin_bottom),
            !.page_break = coalesce(@, p.page_break),
            !.is_title = coalesce(@, p.is_title)]
    ELSE s

\* OdtStyle.__init__, lines 214-220, s0 the fields so far and p the parent
\* object (s0 itself when there is none): the new object, whether it is
\* appended to styles_to_parent, and whether the constructor raised
\* AttributeError (self.parent.base_parent read on a parent that never got one)
OdtStyle_heritage(s0, p) ==
    [style |->
        IF s0.parent # None /\ p.base_parent # None
        THEN maybe_inherit_from_parent(
                [s0 EXCEPT !.base_parent = p.base_parent,
                           !.fountain_info = coalesce(@, p.fountain_info)], p)
        ELSE s0,
     append |-> ~(s0.parent # None /\ p.heritage_loaded),
     raises |-> s0.parent # None /\ p.base_parent = None]

OdtStyle_parent(os, s0) ==
    OdtStyle_heritage(s0, IF s0.parent = None THEN s0
                          ELSE Deref(os, s0, s0.parent[1]))

\* OdtStyle.__init__
OdtStyle(os, table, name, parent_name, display_name) ==
    OdtStyle_parent(os, OdtStyle_fields(table, name, parent_name, display_name))

\* OdtStyle.assign_parent, and assign_parent_by_name after its lookup
assign_parent(s, parent_name, found) ==
    IF found # None
    THEN [s EXCEPT !.parent = found, !.base_parent = found,
                   !.base_parent_name = found[1]]
    ELSE [s EXCEPT !.parent = None, !.base_parent_name = parent_name]

\* OdtStyle.assign_parent_by_name
assign_parent_by_name(s, table, parent_name) ==
    assign_parent(s, parent_name, all_styles_get(table, parent_name))

(***************************************************************************)
(* odf2fountain.py: post_process_styles                                    *)
(***************************************************************************)
\* post_process_styles, lines 310-316, for the style named o; bp is
\* all_styles.get(style.base_parent_name)
Pass1Base(os, o, bp) ==
    IF os[o].is_base \/ bp = None
    THEN [objs |-> os, requeue |-> FALSE, raises |-> FALSE]
    ELSE IF os[bp[1]].base_parent = None
    THEN [objs |-> os, requeue |-> FALSE, raises |-> TRUE]
    ELSE [objs |-> [os EXCEPT ![o].base_parent = os[bp[1]].base_parent,
                              ![o].base_parent_name = os[bp[1]].base_parent_name],
          requeue |-> ~os[bp[1]].is_base, raises |-> FALSE]

\* post_process_styles, lines 306-309, for the style named o; found is
\* all_styles.get(style.parent_name)
Pass1Parent(os, o, found) ==
    IF os[o].parent = None
    THEN [os EXCEPT
            ![o].parent = found,
            ![o].fountain_info =
                IF found # None /\ os[o].fountain_info = None
                THEN os[found[1]].fountain_info ELSE @]
    ELSE os

Pass1Linked(os, table, o) ==
    Pass1Base(os, o, all_styles_get(table, os[o].base_parent_name))

Pass1Object(os, table, o) ==
    Pass1Linked(Pass1Parent(os, o, all_styles_get(table, os[o].parent_name)),
                table, o)

\* the body of the first loop for one key of this_pass
Pass1Style(os, table, key) ==
    Pass1Object(os, table, all_styles_get(table, key)[1])

\* one scan of this_pass, from its i-th key on; r is the outcome for the key
RECURSIVE Pass1Scan(_, _, _, _, _)
Pass1Next(r, table, this_pass, i, next_pass) ==
    IF r.raises
    THEN [objs |-> r.objs, next_pass |-> next_pass, raises |-> TRUE]
    ELSE Pass1Scan(r.objs, table, this_pass, i + 1,
                   IF r.requeue THEN Append(next_pass, this_pass[i])
                   ELSE next_pass)

Pass1Scan(os, table, this_pass, i, next_pass) ==
    IF i > Len(this_pass)
    THEN [objs |-> os, next_pass |-> next_pass, raises |-> FALSE]
    ELSE Pass1Next(Pass1Style(os, table, this_pass[i]), table, this_pass, i,
                   next_pass)

\* while redo: the first loop; r is the outcome of one scan
RECURSIVE Pass1Loop(_, _, _)
Pass1Redo(r, table, this_pass) ==
    IF r.raises THEN [objs |-> r.objs, raises |-> TRUE]
    ELSE IF Len(r.next_pass) < Len(this_pass)
    THEN Pass1Loop(r.objs, table, r.next_pass)
    ELSE [objs |-> r.objs, raises |-> FALSE]

Pass1Loop(os, table, this_pass) ==
    Pass1Redo(Pass1Scan(os, table, this_pass, 1, <<>>), table, this_pass)

\* the second loop's body with the inheritance its comment announces: the
\* style whose parent is now found inherits from it and is marked
\* heritage-loaded
Pass2Assign_inherit(os, o, s1) ==
    [os EXCEPT ![o] = IF s1.parent = None THEN s1
                      ELSE maybe_inherit_from_parent(s1, os[s1.parent[1]])]

\* post_process_styles, line 330, for the style named o: s1 is the style
\* after assign_parent_by_name
Pass2Assign(os, o, s1) == [os EXCEPT ![o] = s1]

\* one scan of the second loop's this_pass, from its i-th style on
RECURSIVE Pass2Scan(_, _, _, _, _)
Pass2Next(os, table, this_pass, i, next_pass) ==
    Pass2Scan(os, table, this_pass, i + 1,
              IF ~os[this_pass[i]].heritage_loaded
              THEN Append(next_pass, this_pass[i]) ELSE next_pass)

Pass2Scan(os, table, this_pass, i, next_pass) ==
    IF i > Len(this_pass)
    THEN [objs |-> os, next_pass |-> next_pass]
    ELSE IF os[this_pass[i]].parent_name # "" /\ ~os[this_pass[i]].heritage_loaded
    THEN Pass2Next(Pass2Assign(os, this_pass[i],
                               assign_parent_by_name(os[this_pass[i]], table,
                                   os[this_pass[i]].parent_name)),
                   table, this_pass, i, next_pass)
    ELSE Pass2Scan(os, table, this_pass, i + 1, next_pass)

\* while redo: the second loop; r is the outcome of one scan
RECURSIVE Pass2Loop(_, _, _)
Pass2Redo(r, table, this_pass) ==
    IF Len(r.next_pass) < Len(this_pass)
    THEN Pass2Loop(r.objs, table, r.next_pass)
    ELSE r.objs

Pass2Loop(os, table, this_pass) ==
    Pass2Redo(Pass2Scan(os, table, this_pass, 1, <<>>), table, this_pass)

\* post_process_styles after its first loop, whose outcome is r1
Pass2(r1, table, heritage) ==
    IF r1.raises THEN r1
    ELSE [objs |-> Pass2Loop(r1.objs, table, heritage), raises |-> FALSE]

\* post_process_styles(styles_to_assign_base_parents, styles_to_assign_heritage):
\* the first argument is given by its keys, the second by its object names
post_process_styles(os, table, base_keys, heritage) ==
    Pass2(Pass1Loop(os, table, base_keys), table, heritage)

(***************************************************************************)
(* odf2fountain.py: OdtXmlStyleHandler, load_ODT_styles                    *)
(***************************************************************************)
\* the style names of the model's inputs: a sentinel, two styles that
\* style_to_fountain knows and one (a page-break variant) that it does not
StyleNames == {"Standard", "Action", "Action_20_PB", "Title_20_Line"}
ParentNames == StyleNames \cup {"Missing"}

\* what one <style:paragraph-properties>/<style:text-properties> element of
\* the input may declare: attribute name |-> value
PropChoices ==
    { <<>>,
      <<[kw |-> "margin-left", value |-> Measure(36, "pt")],
        [kw |-> "font-style", value |-> Text("italic")],
        [kw |-> "break-before", value |-> Text("page")]>> }

\* OdtXmlStyleHandler.startElementNS, one attribute of a properties element
SetProp(s, kw, value) ==
    CASE kw = "margin-left" -> [s EXCEPT !.margin_left = Some(to_points(value))]
      [] kw = "margin-right" -> [s EXCEPT !.margin_right = Some(to_points(value))]
      [] kw = "margin-top" -> [s EXCEPT !.margin_top = Some(to_points(value))]
      [] kw = "margin-bottom" -> [s EXCEPT !.margin_bottom = Some(to_points(value))]
      [] kw = "text-transform" ->
            IF value.text = "uppercase" THEN [s EXCEPT !.uppercase = Some(TRUE)] ELSE s
      [] kw = "text-align" ->
            IF value.text = "end" THEN [s EXCEPT !.align = Some("right")] ELSE s
      [] kw = "font-style" ->
            IF value.text = "italic" THEN [s EXCEPT !.italic = Some(TRUE)] ELSE s
      [] kw = "font-weight" ->
            IF value.text = "bold" THEN [s EXCEPT !.bold = Some(TRUE)] ELSE s
      [] kw = "text-underline-style" ->
            IF value.text = "solid" THEN [s EXCEPT !.underline = Some(TRUE)] ELSE s
      [] kw = "border" -> [s EXCEPT !.border = Some(value.text)]
      [] kw = "break-before" ->
            IF value.text = "page" THEN [s EXCEPT !.page_break = Some(TRUE)] ELSE s
      [] kw = "page-number" ->
            IF value.text # "auto" THEN [s EXCEPT !.page_break = Some(TRUE)] ELSE s
      [] kw = "border-line-width" -> [s EXCEPT !.border_line_width = Some(value.text)]
      [] OTHER -> s

\* the for loop over the attributes of a properties element
RECURSIVE SetProps(_, _)
SetProps(s, attrs) ==
    IF attrs = <<>> THEN s
    ELSE SetProps(SetProp(s, Head(attrs).kw, Head(attrs).value), Tail(attrs))

\* OdtXmlStyleHandler.endElementNS: the style enters the table under its
\* name and, when the name holds _20_, under its display name too
RegisterStyle(table, s) ==
    LET t1 == all_styles_set(table, s.name, s.name)
    IN  IF NameHas20(s.name) THEN all_styles_set(t1, s.display_name, s.name)
        ELSE t1

DeclaredNames == {decls[i].name : i \in 1..Len(decls)}

\* OdtXmlStyleHandler.startElementNS for <style:style>: constructs the style.
\* A style without style:parent-style-name has the parent Standard.
StyleStart(name, parent_name) ==
    /\ pc = "idle"
    /\ Len(decls) < MaxStyles
    /\ name \notin DeclaredNames
    /\ LET r == OdtStyle(objs, all_styles, name, parent_name, DisplayName(name))
       IN  /\ decls' = Append(decls, [name |-> name, parent_name |-> parent_name,
                                      props |-> <<>>, part |-> part])
           /\ IF r.raises
              THEN /\ pc' = "crashed"
                   /\ err' = "AttributeError"
                   /\ UNCHANGED <<objs, styles_to_parent, current_style,
                                  building_style>>
              ELSE /\ pc' = "in_style"
                   /\ objs' = (name :> r.style) @@ objs
                   /\ styles_to_parent' =
                        IF r.append THEN Append(styles_to_parent, name)
                        ELSE styles_to_parent
                   /\ current_style' = Some(name)
                   /\ building_style' = TRUE
                   /\ err' = err
    /\ UNCHANGED <<all_styles, part>>
    /\ UNCHANGED <<codec_vars, engine_vars, reader_vars, lib_vars, post_vars, span_vars>>

\* OdtXmlStyleHandler.startElementNS for a properties element of the
\* current style
StyleProps(attrs) ==
    /\ pc = "in_style"
    /\ attrs # <<>>
    /\ decls[Len(decls)].props = <<>>
    /\ objs' = [objs EXCEPT ![current_style[1]] = SetProps(@, attrs)]
    /\ decls' = [decls EXCEPT ![Len(decls)].props = attrs]
    /\ UNCHANGED <<pc, err, all_styles, styles_to_parent, current_style,
                   building_style, part>>
    /\ UNCHANGED <<codec_vars, engine_vars, reader_vars, lib_vars, post_vars, span_vars>>

\* endElementNS for </style:style>.  In styles.xml it is
\* OdtXmlStyleHandler.endElementNS; in content.xml OdtXmlTextHandler.endElementNS
\* calls it and then post_process_styles for the one style.
StyleEnd ==
    /\ pc = "in_style"
    /\ LET n == current_style[1]
           table == RegisterStyle(all_styles, objs[n])
           stp == Append(styles_to_parent, n)
           r == post_process_styles(objs, table, <<n>>, <<n>>)
       IN  /\ all_styles' = table
           /\ styles_to_parent' = stp
           /\ building_style' = FALSE
           /\ IF part = "content"
              THEN /\ objs' = r.objs
                   /\ pc' = IF r.raises THEN "crashed" ELSE "idle"
                   /\ err' = IF r.raises THEN "AttributeError" ELSE err
              ELSE /\ pc' = "idle"
                   /\ UNCHANGED <<objs, err>>
    /\ UNCHANGED <<current_style, part, decls>>
    /\ UNCHANGED <<codec_vars, engine_vars, reader_vars, lib_vars, post_vars, span_vars>>

\* load_ODT_styles after the parse of styles.xml:
\* post_process_styles(OdtStyle.all_styles, OdtStyle.styles_to_parent)
LoadStylesEnd ==
    /\ pc = "idle"
    /\ part = "styles"
    /\ LET r == post_process_styles(objs, all_styles, Keys(all_styles),
                                    styles_to_parent)
       IN  /\ objs' = r.objs
           /\ pc' = IF r.raises THEN "crashed" ELSE "idle"
           /\ err' = IF r.raises THEN "AttributeError" ELSE err
    /\ part' = "content"
    /\ UNCHANGED <<all_styles, styles_to_parent, current_style, building_style,
                   decls>>
    /\ UNCHANGED <<codec_vars, engine_vars, reader_vars, lib_vars, post_vars, span_vars>>

Init ==
    /\ pc = "idle"
    /\ err = ""
    /\ objs = <<>>
    /\ all_styles = <<>>
    /\ styles_to_parent = <<>>
    /\ current_style = None
    /\ building_style = FALSE
    /\ part = "styles"
    /\ decls = <<>>
    /\ emphasis_substrs = emphasis_substrs_initial
    /\ max_auto_style = 0
    /\ automatic_styles = <<>>
    /\ emph_line = <<>>
    /\ emph_result = <<>>
    /\ emph_before = {}
    /\ emph_spans = <<>>
    /\ lines = <<>>
    /\ linenr = 0
    /\ maxline = 0
    /\ style = ""
    /\ last_style = ""
    /\ blank_pending = FALSE
    /\ blank = TRUE
    /\ last_blank = TRUE
    /\ page_break_required = FALSE
    /\ last_title_style = "Title Line"
    /\ docbody = <<>>
    /\ files_read = 0
    /\ file_lines = <<>>
    /\ file_start = 0
    /\ forcetypes = FALSE
    /\ extendedfountain = FALSE
    /\ state = 2     \* DocumentState.STARTING
    /\ groups = [i \in 0..2 |-> <<>>]
    /\ text_data = <<>>
    /\ in_text = 0
    /\ last_line_blank = FALSE
    /\ last_rule = "Null"
    /\ last_character = <<>>
    /\ body_types = <<>>
    /\ paragraphs = 0
    /\ previous_style = None
    /\ lib_call = [fn |-> "", args |-> <<>>]
    /\ lib_result = None
    /\ pass_queue = <<>>
    /\ pass_pos = 1
    /\ pass_next = <<>>
    /\ spans = << <<>> >>
    /\ span_log = <<>>
    /\ span_stack = <<>>

Next ==
    \/ \E name \in StyleNames, parent_name \in ParentNames :
          StyleStart(name, parent_name)
    \/ \E attrs \in PropChoices : StyleProps(attrs)
    \/ StyleEnd
    \/ LoadStylesEnd

Spec == Init /\ [][Next]_vars

(***************************************************************************)
(* fountain2odf.py: the emphasis codec.  A line is a sequence of           *)
(* one-character strings; the span tags emphasise writes are single        *)
(* elements of it (they hold no marker character and no boundary           *)
(* character).  The state emphasise reads and writes is passed as          *)
(* cs = [rules, max_auto_style, styles].                                   *)
(***************************************************************************)
\* line.find(sub) counted from 1: the first position of sub in line, 0 when
\* Python returns -1
Find(line, sub) ==
    IF \E i \in 1..(Len(line) - Len(sub) + 1) :
            SubSeq(line, i, i + Len(sub) - 1) = sub
    THEN CHOOSE i \in 1..(Len(line) - Len(sub) + 1) :
            /\ SubSeq(line, i, i + Len(sub) - 1) = sub
            /\ \A j \in 1..(i - 1) : SubSeq(line, j, j + Len(sub) - 1) # sub
    ELSE 0

\* line[i:] for a position counted from 1
From(line, i) == SubSeq(line, i, Len(line))

\* 'T' + str(self.max_auto_style)
AutoStyleName(n) == "T" \o ToString(n)

\* the tags of f'<text:span text:style-name="{style}">{bit}</text:span>'
SpanTag(name) == "<text:span text:style-name=" \o name \o ">"
SpanEnd == "</text:span>"

\* get_or_create_style, lines 446-454: the text properties of the new style,
\* written from the flags of the rule the for loop stopped at
StyleProperties(settings) ==
    (IF settings \cap ITALIC # {}
     THEN <<[kw |-> "font-style", value |-> Text("italic")]>> ELSE <<>>)
    \o (IF settings \cap BOLD # {}
        THEN <<[kw |-> "font-weight", value |-> Text("bold")]>> ELSE <<>>)
    \o (IF settings \cap UNDERLINE # {}
        THEN <<[kw |-> "text-underline-style", value |-> Text("solid")]>>
        ELSE <<>>)

\* get_or_create_style, lines 439-443: the index of the rule the for loop
\* breaks at, 0 when it runs to its end
RuleOfFlags(rules, parent_rule) ==
    IF \E i \in 1..Len(rules) : rules[i].settings = parent_rule
    THEN CHOOSE i \in 1..Len(rules) : rules[i].settings = parent_rule
    ELSE 0

\* get_or_create_style after its for loop, which stopped at rule i (0: at its
\* end, and then the loop variable is the last rule).  The new style is
\* recorded with the flags it was asked for (history: the style itself holds
\* its properties only).
CreateStyle(cs, i, parent_rule) ==
    IF i # 0 /\ cs.rules[i].style # None
    THEN [cs |-> cs, style |-> cs.rules[i].style[1]]
    ELSE [cs |-> [cs EXCEPT
                    !.max_auto_style = @ + 1,
                    !.styles = Append(@,
                        [name |-> AutoStyleName(cs.max_auto_style + 1),
                         requested |-> parent_rule,
                         props |-> StyleProperties(
                            cs.rules[IF i = 0 THEN Len(cs.rules) ELSE i].settings)])],
          style |-> AutoStyleName(cs.max_auto_style + 1)]

\* FountainProcessor.get_or_create_style(parent_rule)
get_or_create_style(cs, parent_rule) ==
    CreateStyle(cs, RuleOfFlags(cs.rules, parent_rule), parent_rule)

\* the default of emphasise's required_before, ' \t', and the one
\* process_titles passes, ' :\t'
RequiredBefore == {" ", "\t"}
RequiredBeforeTitle == {" ", ":", "\t"}

RECURSIVE emphasise(_, _, _, _)
RECURSIVE EmphasiseRules(_, _, _, _, _)
RECURSIVE EmphasiseWhile(_, _, _, _, _, _)

\* emphasise, lines 476-477, r the result of the nested call on bit: the span
\* goes to newline and the while loop goes on with the rest of the line
EmphasiseSpan(r, span_style, line, newline, rule, parent_settings, required_before) ==
    EmphasiseWhile(r.cs, line,
                   newline \o <<SpanTag(span_style)>> \o r.line \o <<SpanEnd>>,
                   rule, parent_settings, required_before)

\* emphasise, lines 474-476, g the result of get_or_create_style: the style
\* name goes into rule[2] of the marker's rule, then bit is scanned with the
\* new settings.  The span is recorded with its style and its new_settings
\* (history).
EmphasiseStyle(g, bit, line, newline, rule, parent_settings, required_before) ==
    EmphasiseSpan(
        emphasise([g.cs EXCEPT
                      !.rules[rule].style = Some(g.style),
                      !.spans = Append(@,
                          [style |-> g.style,
                           settings |-> parent_settings
                                        \cup g.cs.rules[rule].settings])],
                  bit,
                  parent_settings \cup g.cs.rules[rule].settings, RequiredBefore),
        g.style, line, newline, rule, parent_settings, required_before)

\* emphasise, lines 469-480: line is what follows the opening marker and
\* end_match the position of the closing marker in it
EmphasiseOpen(cs, line, newline, rule, parent_settings, required_before, end_match) ==
    IF end_match > 0
    THEN EmphasiseStyle(
            get_or_create_style(cs, parent_settings \cup cs.rules[rule].settings),
            SubSeq(line, 1, end_match - 1),
            From(line, end_match + Len(cs.rules[rule].end_str)),
            newline, rule, parent_settings, required_before)
    ELSE [cs |-> cs, line |-> newline \o line]

\* emphasise, lines 465-491: start is the position of match_str in line
EmphasiseAt(cs, line, newline, rule, parent_settings, required_before, start) ==
    IF start = 0
    THEN [cs |-> cs, line |-> newline \o line]
    ELSE IF start = 1 \/ line[start - 1] \in required_before
    THEN EmphasiseOpen(cs, From(line, start + Len(cs.rules[rule].match_str)),
                       newline \o SubSeq(line, 1, start - 1), rule,
                       parent_settings, required_before,
                       Find(From(line, start + Len(cs.rules[rule].match_str)),
                            cs.rules[rule].end_str))
    ELSE IF line[start - 1] = "\\"
    THEN EmphasiseWhile(cs, From(line, start + 1),
                        newline \o SubSeq(line, 1, start), rule,
                        parent_settings, required_before)
    ELSE EmphasiseWhile(cs, From(line, start + Len(cs.rules[rule].match_str)),
                        newline \o SubSeq(line, 1,
                            start + Len(cs.rules[rule].match_str) - 1),
                        rule, parent_settings, required_before)

\* emphasise, the while loop of one rule
EmphasiseWhile(cs, line, newline, rule, parent_settings, required_before) ==
    IF line = <<>>
    THEN [cs |-> cs, line |-> newline]
    ELSE EmphasiseAt(cs, line, newline, rule, parent_settings, required_before,
                     Find(line, cs.rules[rule].match_str))

\* emphasise, the for loop from the rule of index rule on; r holds the state
\* and the newline of the rule before
EmphasiseRules(r, rule, parent_settings, required_before, last) ==
    IF rule > last THEN r
    ELSE EmphasiseRules(
            EmphasiseWhile(r.cs, r.line, <<>>, rule, parent_settings,
                           required_before),
            rule + 1, parent_settings, required_before, last)

\* FountainProcessor.emphasise(line, local_style, parent_settings,
\* required_before): the state after the call and the string returned
emphasise(cs, line, parent_settings, required_before) ==
    EmphasiseRules([cs |-> cs, line |-> line], 1, parent_settings,
                   required_before, Len(cs.rules))

\* the lines the model gives to emphasise: an unterminated marker, escaped
\* markers, the six marker pairs around a word, spans within spans, markers
\* within a word, two spans in one line, a marker that follows a skipped, a
\* closed and an escaped marker
MaxAutoStyle == 4

EmphasisLines ==
    { <<"*", "o", "o", "p", "s">>,
      <<"\\", "*", "n", "\\", "*">>,
      <<"*", "x", "*">>,
      <<"*", "*", "x", "*", "*">>,
      <<"_", "x", "_">>,
      <<"*", "*", "*", "x", "*", "*", "*">>,
      <<"_", "*", "*", "x", "*", "*", "_">>,
      <<"_", "*", "*", "*", "x", "*", "*", "*", "_">>,
      <<"*", "*", "a", " ", "*", "b", "*", " ", "c", "*", "*">>,
      <<"_", "a", " ", "*", "b", "*", "_">>,
      <<"a", "_", "_", "b", "_">>,
      <<"a", "_", "b">>,
      <<"*", "x", "*", " ", "*", "y", "*">>,
      <<"a", "*", "*", "b", "*">>,
      <<"*", "a", "*", "*", "b", "*">>,
      <<"\\", "*", "*", "a", "*">>,
      <<"*", "a", " ", "_", "b", "_", "*">> }

\* title lines: key:value with markers after the colon
EmphasisTitleLines ==
    { <<"a", ":", "*", "b", "*">>,
      <<"a", ":", " ", "_", "b", "_">> }

\* the state emphasise works on
CodecState ==
    [rules |-> emphasis_substrs, max_auto_style |-> max_auto_style,
     styles |-> automatic_styles, spans |-> <<>>]

\* the assignments of one call of emphasise whose outcome is r
EmphasiseDone(line, required_before, r) ==
    /\ emphasis_substrs' = r.cs.rules
    /\ max_auto_style' = r.cs.max_auto_style
    /\ automatic_styles' = r.cs.styles
    /\ emph_line' = line
    /\ emph_result' = r.line
    /\ emph_before' = required_before
    /\ emph_spans' = r.cs.spans
    /\ UNCHANGED <<resolver_vars, engine_vars, reader_vars, lib_vars, post_vars, span_vars>>

\* add_line, lines 510-511: line=self.emphasise(line, local_style)
Emphasise(line) ==
    /\ max_auto_style < MaxAutoStyle
    /\ \E i \in 1..Len(line) : line[i] \in {"_", "*"}
    /\ EmphasiseDone(line, RequiredBefore,
                     emphasise(CodecState, line, NONE, RequiredBefore))

\* process_titles, lines 414-415:
\* line=self.emphasise(line, self.last_title_style, required_before=' :\t')
EmphasiseTitle(line) ==
    /\ max_auto_style < MaxAutoStyle
    /\ \E i \in 1..Len(line) : line[i] = ":"
    /\ \E i \in 1..Len(line) : line[i] \in {"_", "*"}
    /\ EmphasiseDone(line, RequiredBeforeTitle,
                     emphasise(CodecState, line, NONE, RequiredBeforeTitle))

CodecNext ==
    \/ \E line \in EmphasisLines : Emphasise(line)
    \/ \E line \in EmphasisTitleLines : EmphasiseTitle(line)

CodecSpec == Init /\ [][CodecNext]_vars

(***************************************************************************)
(* odf2fountain.py: OdtXmlTextHandler, the spans of a paragraph.  data and  *)
(* spans are lists of strings; rs = [data, spans] is the handler's state.   *)
(***************************************************************************)
\* a flag attribute of a style used as a condition: neither None nor False
Truthy(v) == v # None /\ v[1] = TRUE

\* startElementNS, lines 404-405: the empty strings at the end of data go
RECURSIVE PopEmpty(_)
PopEmpty(data) ==
    IF data # <<>> /\ data[Len(data)] = <<>>
    THEN PopEmpty(SubSeq(data, 1, Len(data) - 1))
    ELSE data

\* startElementNS, lines 403-417: open_text, data being the list after the
\* pops
open_text(data, new_style) ==
    (IF data # <<>> /\ data[Len(data)][Len(data[Len(data)])] # " "
     THEN <<" ">> ELSE <<>>)
    \o (IF Truthy(new_style.underline) THEN <<"_">> ELSE <<>>)
    \o (IF Truthy(new_style.bold) THEN <<"*", "*">> ELSE <<>>)
    \o (IF Truthy(new_style.italic) THEN <<"*">> ELSE <<>>)

\* close_text with the markers in the order of open_text
close_text_forward(new_style) ==
    (IF Truthy(new_style.underline) THEN <<"_">> ELSE <<>>)
    \o (IF Truthy(new_style.bold) THEN <<"*", "*">> ELSE <<>>)
    \o (IF Truthy(new_style.italic) THEN <<"*">> ELSE <<>>)

\* startElementNS, lines 408-417: close_text
close_text(new_style) ==
    (IF Truthy(new_style.italic) THEN <<"*">> ELSE <<>>)
    \o (IF Truthy(new_style.bold) THEN <<"*", "*">> ELSE <<>>)
    \o (IF Truthy(new_style.underline) THEN <<"_">> ELSE <<>>)

\* startElementNS for <text:span> with a style that was found, lines 401-419
startElementNS_span(rs, new_style) ==
    [data |-> Append(PopEmpty(rs.data), open_text(PopEmpty(rs.data), new_style)),
     spans |-> rs.spans \o << <<>>, close_text(new_style) >>]

\* endElementNS for </text:span>, lines 477-479
endElementNS_span(rs) ==
    [data |-> Append(rs.data, rs.spans[Len(rs.spans)]),
     spans |-> SubSeq(rs.spans, 1, Len(rs.spans) - 1)]

\* characters(chars) within a paragraph
characters(rs, chars) ==
    IF chars # <<>> THEN [rs EXCEPT !.data = Append(@, chars)] ELSE rs

\* ''.join(self.data)
RECURSIVE Join(_)
Join(data) == IF data = <<>> THEN <<>> ELSE Head(data) \o Join(Tail(data))

\* the table and the objects after a styles.xml that declares Standard alone
StandardTable == <<[key |-> "Standard", obj |-> "Standard"]>>
StandardObjs ==
    "Standard" :> OdtStyle(<<>>, <<>>, "Standard", "Standard", "Standard").style

\* the OdtStyle the reader builds from an automatic text style of content.xml
\* (no parent-style-name: the parent is Standard), st = [name, props]
AutomaticStyle(st) ==
    SetProps(OdtStyle(StandardObjs, StandardTable, st.name, "Standard",
                      st.name).style, st.props)

\* the index in styles of the style a span tag names, 0 for another element
SpanTagStyle(tok, styles) ==
    IF \E i \in 1..Len(styles) : tok = SpanTag(styles[i].name)
    THEN CHOOSE i \in 1..Len(styles) : tok = SpanTag(styles[i].name)
    ELSE 0

\* the handler calls for the content of one paragraph as emphasise wrote it
RECURSIVE ReadSpans(_, _, _)
ReadSpans(rs, content, styles) ==
    IF content = <<>> THEN rs
    ELSE IF SpanTagStyle(Head(content), styles) # 0
    THEN ReadSpans(startElementNS_span(rs,
                        AutomaticStyle(styles[SpanTagStyle(Head(content), styles)])),
                   Tail(content), styles)
    ELSE IF Head(content) = SpanEnd
    THEN ReadSpans(endElementNS_span(rs), Tail(content), styles)
    ELSE ReadSpans(characters(rs, <<Head(content)>>), Tail(content), styles)

\* the text of a paragraph with the given content, read by a new handler
\* (data = [], spans = [''])
ReadParagraph(content, styles) ==
    Join(ReadSpans([data |-> <<>>, spans |-> << <<>> >>], content, styles).data)

(***************************************************************************)
(* fountain2odf.py: the write-direction engine.  Python's string methods   *)
(* on lines that are sequences of one-character strings.                   *)
(***************************************************************************)
\* the characters str.strip() removes, for the characters of the model
Whitespace == {" ", "\t", "\n", "\r"}

\* line.rstrip(chars), line.lstrip(chars), line.strip(chars)
RECURSIVE rstrip(_, _)
rstrip(line, chars) ==
    IF line # <<>> /\ line[Len(line)] \in chars
    THEN rstrip(SubSeq(line, 1, Len(line) - 1), chars)
    ELSE line

RECURSIVE lstrip(_, _)
lstrip(line, chars) ==
    IF line # <<>> /\ Head(line) \in chars THEN lstrip(Tail(line), chars)
    ELSE line

strip(line, chars) == lstrip(rstrip(line, chars), chars)

\* line[0:n] and line[-n:]
Prefix(line, n) == SubSeq(line, 1, IF n < Len(line) THEN n ELSE Len(line))
Suffix(line, n) == SubSeq(line, IF n < Len(line) THEN Len(line) - n + 1 ELSE 1, Len(line))

\* c in line
Contains(line, c) == \E i \in 1..Len(line) : line[i] = c

\* str.upper(), str.lower() and str.isalnum() on ASCII characters
LowerCase == <<"a", "b", "c", "d", "e", "f", "g", "h", "i", "j", "k", "l", "m",
               "n", "o", "p", "q", "r", "s", "t", "u", "v", "w", "x", "y", "z">>
UpperCase == <<"A", "B", "C", "D", "E", "F", "G", "H", "I", "J", "K", "L", "M",
               "N", "O", "P", "Q", "R", "S", "T", "U", "V", "W", "X", "Y", "Z">>
Digits == {"0", "1", "2", "3", "4", "5", "6", "7", "8", "9"}

UpperChar(c) ==
    IF \E i \in 1..Len(LowerCase) : LowerCase[i] = c
    THEN UpperCase[CHOOSE i \in 1..Len(LowerCase) : LowerCase[i] = c]
    ELSE c
LowerChar(c) ==
    IF \E i \in 1..Len(UpperCase) : UpperCase[i] = c
    THEN LowerCase[CHOOSE i \in 1..Len(UpperCase) : UpperCase[i] = c]
    ELSE c
upper(line) == [i \in 1..Len(line) |-> UpperChar(line[i])]
lower(line) == [i \in 1..Len(line) |-> LowerChar(line[i])]

isalnum(c) ==
    \/ \E i \in 1..Len(LowerCase) : c \in {LowerCase[i], UpperCase[i]}
    \/ c \in Digits

\* the name used as it is, the spaces not replaced
internal_style_name_plain(local_style) == local_style

\* local_style.replace(' ', '_20_'), for the style names add_line can build
internal_style_name(local_style) ==
    CASE local_style = "Scene Heading" -> "Scene_20_Heading"
      [] local_style = "Scene Heading ATi" -> "Scene_20_Heading_20_ATi"
      [] local_style = "Scene Heading PB" -> "Scene_20_Heading_20_PB"
      [] local_style = "Action ATi" -> "Action_20_ATi"
      [] local_style = "Action PB" -> "Action_20_PB"
      [] local_style = "Character PB" -> "Character_20_PB"
      [] local_style = "Dialogue PB" -> "Dialogue_20_PB"
      [] local_style = "Lyrics PB" -> "Lyrics_20_PB"
      [] local_style = "Notes PB" -> "Notes_20_PB"
      [] local_style = "Centered PB" -> "Centered_20_PB"
      [] local_style = "Parenthetical PB" -> "Parenthetical_20_PB"
      [] local_style = "Transition PB" -> "Transition_20_PB"
      [] local_style = "Shot PB" -> "Shot_20_PB"
      [] OTHER -> local_style

\* FountainProcessor.style_replacement.get((last_style, style)): None or the
\* style to use
style_replacement(previous, requested) ==
    CASE previous = "Title Line" /\ requested = "Action" -> Some("Action ATi")
      [] previous = "Title Line" /\ requested = "Centered" -> Some("Action ATi")
      [] previous = "Title Line" /\ requested = "Scene Heading" -> Some("Scene Heading ATi")
      [] previous = "Transition" /\ requested = "Scene Heading" -> Some("Scene Heading")
      [] previous = "Scene Heading" /\ requested = "Character" -> Some("Character")
      [] OTHER -> None

\* known_styles after insert_style_templates on a document without template:
\* the styles of needed_styles_list whose own or inherited properties make
\* is_space_before or is_space_after true (a margin of 0.3528cm is 10 points,
\* above the 5 of the test; fo:break-before or fo:break-after is "page")
SpaceBeforeStyles ==
    {"Character", "Scene_20_Heading", "Transition", "Scene_20_Heading_20_PB",
     "Character_20_PB", "Action_20_PB", "Notes_20_PB", "Centered_20_PB",
     "Parenthetical_20_PB", "Transition_20_PB", "Dialogue_20_PB", "Lyrics_20_PB"}
SpaceAfterStyles ==
    {"Scene_20_Heading", "Transition", "Title_20_Ends", "Scene_20_Heading_20_ATi",
     "Scene_20_Heading_20_PB", "Scene_20_Heading_20_ATr", "Transition_20_PB"}
KnownStyles ==
    {"Standard", "Script_20_Elements", "Character", "Dialogue", "Scene_20_Heading",
     "Transition", "Action", "Parenthetical", "Lyrics", "Centered", "Notes",
     "Title_20_Line", "Title_20_Line_20_Centered", "Title_20_Ends",
     "Character_20_AS", "Scene_20_Heading_20_ATi", "Scene_20_Heading_20_PB",
     "Character_20_PB", "Action_20_PB", "Notes_20_PB", "Centered_20_PB",
     "Parenthetical_20_PB", "Scene_20_Heading_20_ATr", "Transition_20_PB",
     "Dialogue_20_PB", "Lyrics_20_PB", "Action_20_ATi"}

\* add_line, lines 503-504: the name of the style whose spacing is used
style_info(internal) == IF internal \in KnownStyles THEN internal ELSE "Action"

\* is_space_before that sees no space before any style
is_space_before_never(name) == FALSE

is_space_before(name) == name \in SpaceBeforeStyles
is_space_after(name) == name \in SpaceAfterStyles

(***************************************************************************)
(* fountain2odf.py: add_line and the methods of the main loop.  The        *)
(* processor is passed as the record fp: its fields are the variables of   *)
(* the engine, cs (the state of the codec) and err.  A line is at          *)
(* lines[linenr + 1], Python counting from 0.  A paragraph is              *)
(* [style, text], style "" for a paragraph made without one.               *)
(***************************************************************************)
\* '_' in line or '*' in line
HasMarker(line) == Contains(line, "_") \/ Contains(line, "*")

\* add_line, lines 495-500
local_style(fp, para_style) ==
    IF style_replacement(fp.last_style, para_style) # None
    THEN style_replacement(fp.last_style, para_style)[1]
    ELSE IF fp.page_break_required THEN para_style \o " PB"
    ELSE para_style

\* add_line, lines 501-521: r is the line, after emphasise when it holds a
\* marker, and internal is internal_style_name
AddParagraph(fp, r, para_style, fake_style, internal) ==
    [fp EXCEPT
        !.page_break_required = FALSE,
        !.blank_pending = FALSE,
        !.docbody =
            (IF fp.blank_pending /\ ~is_space_before(style_info(internal))
             THEN Append(@, [style |-> "", text |-> <<" ">>]) ELSE @)
            \o <<[style |-> internal, text |-> r.line]>>,
        !.cs = r.cs,
        !.style = IF fake_style # None THEN fake_style[1] ELSE para_style,
        !.blank = is_space_after(style_info(internal))
                  \/ strip(r.line, Whitespace) = <<>>]

RECURSIVE add_line(_, _, _, _, _)

\* add_line, lines 522-525: the while loop that takes the following lines
\* into the same style.  lines[linenr+1][0] raises IndexError on an empty
\* string.
RECURSIVE MergeLines(_, _)
MergeLines(fp, para_style) ==
    IF fp.linenr < Len(fp.lines)
    THEN IF fp.linenr + 2 > Len(fp.lines) \/ fp.lines[fp.linenr + 2] = <<>>
         THEN [fp EXCEPT !.err = "IndexError"]
         ELSE IF isalnum(fp.lines[fp.linenr + 2][1])
         THEN MergeLines(add_line([fp EXCEPT !.linenr = @ + 1],
                                  fp.lines[fp.linenr + 2], para_style, None, FALSE),
                         para_style)
         ELSE fp
    ELSE fp

\* add_line after the paragraph is appended
AddMerged(fp, para_style, merge_lines) ==
    IF merge_lines THEN MergeLines(fp, para_style) ELSE fp

\* FountainProcessor.add_line(line, style, fake_style, merge_lines)
add_line(fp, line, para_style, fake_style, merge_lines) ==
    AddMerged(
        AddParagraph(fp,
                     IF HasMarker(line)
                     THEN emphasise(fp.cs, line, NONE, RequiredBefore)
                     ELSE [cs |-> fp.cs, line |-> line],
                     para_style, fake_style,
                     internal_style_name(local_style(fp, para_style))),
        para_style, merge_lines)

\* FountainProcessor.page_break
page_break(fp) ==
    [fp EXCEPT !.page_break_required = TRUE, !.blank = TRUE,
               !.blank_pending = FALSE]

\* FountainProcessor.process_blank
process_blank(fp) ==
    [fp EXCEPT !.blank = TRUE, !.blank_pending = ~fp.last_blank]

\* line.split(sep)
RECURSIVE split(_, _)
split(line, sep) ==
    IF Find(line, sep) = 0 THEN <<line>>
    ELSE <<SubSeq(line, 1, Find(line, sep) - 1)>>
         \o split(From(line, Find(line, sep) + Len(sep)), sep)

\* note_block, lines 541-545: the for loop over the parts, from the i-th on
RECURSIVE NoteParts(_, _, _)
NoteParts(fp, parts, i) ==
    IF i > Len(parts) THEN fp
    ELSE NoteParts(IF parts[i] # <<>>
                   THEN add_line(fp, parts[i],
                                 IF i = 1 THEN "Notes" ELSE "Dialogue", None, FALSE)
                   ELSE fp,
                   parts, i + 1)

\* note_block after line=line[2:]
NoteLine(fp, line) ==
    IF Find(line, <<"]", "]">>) # 0
    THEN NoteParts(fp, split(line, <<"]", "]">>), 1)
    ELSE add_line(fp, line \o <<"...  Not yet implemented">>, "Notes", None, FALSE)

\* FountainProcessor.note_block
note_block(fp, line) ==
    [NoteLine(fp, From(line, 3)) EXCEPT !.blank = FALSE]

\* transition_or_centred after its first if; line[-1] raises IndexError on
\* an empty string
TransitionLine(fp, line) ==
    IF line = <<>> THEN [fp EXCEPT !.err = "IndexError"]
    ELSE IF line[Len(line)] = ":" THEN add_line(fp, line, "Transition", None, FALSE)
    ELSE add_line(fp, rstrip(line, {"<"}), "Centered", Some("Action"), FALSE)

\* FountainProcessor.transition_or_centred
transition_or_centred(fp, line) ==
    TransitionLine(fp, IF line[1] = ">" THEN Tail(line) ELSE line)

(***************************************************************************)
(* fountain2odf.py: process_titles and process_file_contents               *)
(***************************************************************************)
\* the keys of process_titles, line 413
CentredTitleKeys ==
    { <<"t", "i", "t", "l", "e">>, <<"c", "r", "e", "d", "i", "t">>, <<"a", "u", "t", "h", "o", "r">>, <<"a", "u", "t", "h", "o", "r", "s">>, <<"s", "o", "u", "r", "c", "e">> }

\* process_titles, lines 431-436; ended_blank: the loop ended on an empty line
TitlesEnd(fp, ended_blank) ==
    [fp EXCEPT !.last_blank = IF ended_blank THEN TRUE ELSE @,
               !.linenr = IF ended_blank THEN @ + 1 ELSE @,
               !.last_style = "Title Line",
               !.page_break_required = TRUE]

\* process_titles, lines 405-407: the text of the document title
FirstTitleText(line) ==
    strip(IF Len(line) > 6 /\ Prefix(line, 6) = <<"T", "i", "t", "l", "e", ":">>
          THEN strip(From(line, 7), Whitespace) ELSE line,
          {"_", "*", " ", "\t"})

\* process_titles, lines 412-413: the style of a key: value line
KeyTitleStyle(line) ==
    IF lower(Head(split(strip(line, Whitespace), <<":">>))) \in CentredTitleKeys
    THEN "Title Line Centered" ELSE "Title Line"

\* process_titles, lines 414-420 and 423-427: the paragraph goes to titles and
\* linenr moves on; r is the line, after emphasise when it holds a marker
TitleParagraph(fp, r, title_style, lead) ==
    [fp EXCEPT !.cs = r.cs,
               !.last_title_style = title_style,
               !.docbody = Append(@, [style |-> title_style, text |-> lead \o r.line]),
               !.linenr = @ + 1]

\* process_titles, the while loop
RECURSIVE TitlesLoop(_, _)
TitleLine(fp, firstTitle, line) ==
    IF line = <<>> THEN TitlesEnd(fp, TRUE)
    ELSE IF firstTitle
    THEN TitlesLoop(
            [fp EXCEPT !.docbody = Append(@, [style |-> "Title",
                                              text |-> FirstTitleText(line)]),
                       !.last_title_style = "Title Line Centered",
                       !.linenr = @ + 1],
            FALSE)
    ELSE IF Contains(line, ":")
    THEN TitlesLoop(
            TitleParagraph(fp,
                IF HasMarker(line)
                THEN emphasise(fp.cs, line, NONE, RequiredBeforeTitle)
                ELSE [cs |-> fp.cs, line |-> strip(line, Whitespace)],
                KeyTitleStyle(line), <<>>),
            FALSE)
    ELSE IF Len(line) > 3 /\ (Prefix(line, 3) = <<" ", " ", " ">> \/ line[1] = "\t")
    THEN TitlesLoop(
            TitleParagraph(fp,
                IF HasMarker(strip(line, Whitespace))
                THEN emphasise(fp.cs, strip(line, Whitespace), NONE,
                               RequiredBeforeTitle)
                ELSE [cs |-> fp.cs, line |-> strip(line, Whitespace)],
                fp.last_title_style, <<"<text:tab/>">>),
            FALSE)
    ELSE TitlesEnd(fp, FALSE)

TitlesLoop(fp, firstTitle) ==
    IF fp.linenr < fp.maxline
    THEN TitleLine(fp, firstTitle, rstrip(fp.lines[fp.linenr + 1], {"\n", "\r"}))
    ELSE TitlesEnd(fp, FALSE)

\* FountainProcessor.process_titles
process_titles(fp) == TitlesLoop(fp, TRUE)

\* the look at the next line taken one line too early, at the current line
NextLineBlank_current(fp) ==
    strip(fp.lines[fp.linenr + 1], {" ", "\t", "\r", "\n"}) = <<>>

\* the look at the next line left out: no line counts as blank
NextLineBlank_never(fp) == FALSE

\* lines[linenr+1].strip(' \t\r\n')=='', the look at the next line
NextLineBlank(fp) ==
    strip(fp.lines[fp.linenr + 2], {" ", "\t", "\r", "\n"}) = <<>>

\* process_file_contents, lines 585-586: the methods of start_to_method
StartToMethod(fp, line) ==
    CASE line[1] = "!" -> add_line(fp, Tail(line), "Action", None, FALSE)
      [] line[1] = "@" -> add_line(fp, Tail(line), "Character", None, FALSE)
      [] line[1] = "%" -> add_line(fp, Tail(line), "Dialogue", None, TRUE)
      [] line[1] = "'" -> add_line(fp, line, "Dialogue", None, TRUE)
      [] line[1] = "~" -> add_line(fp, Tail(line), "Lyrics", Some("Dialogue"), FALSE)
      [] line[1] = "(" -> add_line(fp, line, "Parenthetical", None, FALSE)
      [] line[1] = "." -> add_line(fp, Tail(line), "Scene Heading", None, FALSE)
      [] line[1] = ">" -> transition_or_centred(fp, line)

\* process_file_contents, lines 583-605: the if chain on the current line
ProcessLine(fp, line) ==
    IF strip(line, Whitespace) = <<>> THEN process_blank(fp)
    ELSE IF line[1] \in {"!", "@", "%", "'", "~", "(", ".", ">"}
    THEN StartToMethod(fp, line)
    ELSE IF Len(line) > 1 /\ Prefix(line, 2) = <<"[", "[">> THEN note_block(fp, line)
    ELSE IF strip(line, Whitespace)[1] = "("
    THEN add_line(fp, <<"(">>, "Parenthetical", None, FALSE)
    ELSE IF /\ Prefix(line, 5) \in {<<"I", "N", "T", ".", " ">>,
                                    <<"E", "X", "T", ".", " ">>}
            /\ NextLineBlank(fp)
    THEN add_line(fp, line, "Scene Heading", None, FALSE)
    ELSE IF fp.last_blank /\ upper(line) = line /\ ~NextLineBlank(fp)
    THEN add_line(fp, line,
                  IF Suffix(line, 3) = <<"T", "O", ":">> THEN "Transition"
                  ELSE "Character", None, FALSE)
    ELSE IF Prefix(line, 3) = <<"=", "=", "=">> THEN page_break(fp)
    ELSE IF fp.last_style \in {"Character", "Parenthetical", "Notes"}
    THEN add_line(fp, line, "Dialogue", None, TRUE)
    ELSE add_line(fp, line, "Action", None, FALSE)

\* lines 606-608 without the step to the next line
LineDone_stay(fp) ==
    IF fp.err # "" THEN fp
    ELSE [fp EXCEPT !.last_blank = fp.blank, !.last_style = fp.style]

\* process_file_contents, lines 606-608, which an exception skips
LineDone(fp) ==
    IF fp.err # "" THEN fp
    ELSE [fp EXCEPT !.linenr = @ + 1, !.last_blank = fp.blank,
                    !.last_style = fp.style]

\* one turn of the while loop of process_file_contents
LoopBody(fp) ==
    LineDone(ProcessLine(fp, rstrip(fp.lines[fp.linenr + 1], {"\n", "\r"})))

\* process_file_contents, lines 576-577: blank lines at the start are skipped
RECURSIVE SkipBlank(_)
SkipBlank(fp) ==
    IF fp.linenr < fp.maxline
       /\ rstrip(fp.lines[fp.linenr + 1], {" ", "\r", "\n"}) = <<>>
    THEN SkipBlank([fp EXCEPT !.linenr = @ + 1])
    ELSE fp

\* process_file_contents, lines 579-580
MaybeTitles(fp) ==
    IF Contains(fp.lines[fp.linenr + 1], ":") THEN process_titles(fp) ELSE fp

\* process_file_contents, lines 568-574: the last line is left out when it
\* is blank, else an empty line is appended
FileStart(fp, file) ==
    IF rstrip(file[Len(file)], {"\n", "\r", " "}) = <<>>
    THEN [fp EXCEPT !.lines = file, !.linenr = 0, !.maxline = Len(file) - 1]
    ELSE [fp EXCEPT !.lines = Append(file, <<>>), !.linenr = 0,
                    !.maxline = Len(file)]

\* process_file_contents with the test of line 564 as len(lines) < 1
FilePrologue_single(fp, file) ==
    IF Len(file) < 1 THEN fp
    ELSE MaybeTitles(SkipBlank(FileStart(fp, file)))

\* process_file_contents up to its main loop
FilePrologue(fp, file) ==
    IF Len(file) < 2 THEN fp
    ELSE MaybeTitles(SkipBlank(FileStart(fp, file)))

(***************************************************************************)
(* The engine as a state machine: a call of process_file_contents with the *)
(* lines of a file, then one step for each turn of its main loop.          *)
(***************************************************************************)
MaxLines == 3

\* the lines of the model's files, without their line ends: a blank line, a
\* scene heading, a dialogue line with the apostrophe, a character with its
\* sigil, a line of text, an upper-case line, a page break, a line with a
\* colon, a transition and a parenthetical
FileLines ==
    { <<>>,
      <<"I", "N", "T", ".", " ", "A">>,
      <<"'", "a">>,
      <<"@", "B">>,
      <<"H", "i">>,
      <<"B", "O", "B">>,
      <<"=", "=", "=">>,
      <<"T", ":", "x">>,
      <<">", "A", ":">>,
      <<"(", "x", ")">> }

\* readlines(): every line ends with a line feed, the last one only when
\* the file ends with one
Readlines(texts, final_newline) ==
    [i \in 1..Len(texts) |->
        IF i < Len(texts) \/ final_newline THEN texts[i] \o <<"\n">>
        ELSE texts[i]]

\* the processor as a record
Processor ==
    [lines |-> lines, linenr |-> linenr, maxline |-> maxline, style |-> style,
     last_style |-> last_style, blank_pending |-> blank_pending,
     blank |-> blank, last_blank |-> last_blank,
     page_break_required |-> page_break_required,
     last_title_style |-> last_title_style, docbody |-> docbody,
     cs |-> CodecState, err |-> err]

\* the state after a step that leaves the processor as fp
ProcessorNext(fp) ==
    /\ lines' = fp.lines
    /\ linenr' = fp.linenr
    /\ maxline' = fp.maxline
    /\ style' = fp.style
    /\ last_style' = fp.last_style
    /\ blank_pending' = fp.blank_pending
    /\ blank' = fp.blank
    /\ last_blank' = fp.last_blank
    /\ page_break_required' = fp.page_break_required
    /\ last_title_style' = fp.last_title_style
    /\ docbody' = fp.docbody
    /\ emphasis_substrs' = fp.cs.rules
    /\ max_auto_style' = fp.cs.max_auto_style
    /\ automatic_styles' = fp.cs.styles
    /\ err' = fp.err
    /\ pc' = IF fp.err # "" THEN "crashed"
             ELSE IF fp.lines # <<>> /\ fp.linenr < fp.maxline THEN "body"
             ELSE "done"
    /\ UNCHANGED <<objs, all_styles, styles_to_parent, current_style,
                   building_style, part, decls, emph_line, emph_result,
                   emph_before, emph_spans>>
    /\ UNCHANGED <<reader_vars, lib_vars, post_vars, span_vars>>

\* process_file_contents(lines) up to the first turn of its main loop
process_file_contents(texts, final_newline) ==
    /\ pc = "idle"
    /\ ProcessorNext(FilePrologue(Processor, Readlines(texts, final_newline)))
    /\ files_read' = files_read + 1
    /\ file_lines' = Readlines(texts, final_newline)
    /\ file_start' = Len(docbody)

\* one turn of the main loop of process_file_contents
MainLoop ==
    /\ pc = "body"
    /\ ProcessorNext(LoopBody(Processor))
    /\ UNCHANGED <<files_read, file_lines, file_start>>

EngineNext ==
    \/ \E n \in 1..MaxLines : \E texts \in [1..n -> FileLines] :
          \E final_newline \in BOOLEAN : process_file_contents(texts, final_newline)
    \/ MainLoop

EngineSpec == Init /\ [][EngineNext]_vars

(***************************************************************************)
(* The resolver as a function of the declarations of styles.xml: the       *)
(* handler calls of StyleStart, StyleProps and StyleEnd for each           *)
(* declaration in turn, then LoadStylesEnd.                                *)
(***************************************************************************)
RECURSIVE DeclareAll(_, _)
DeclareAll(st, ds) ==
    IF ds = <<>> \/ st.raises THEN st
    ELSE LET d == Head(ds)
             r == OdtStyle(st.objs, st.table, d.name, d.parent_name,
                           DisplayName(d.name))
             s == SetProps(r.style, d.props)
         IN  IF r.raises THEN [st EXCEPT !.raises = TRUE]
             ELSE DeclareAll(
                    [objs |-> (d.name :> s) @@ st.objs,
                     table |-> RegisterStyle(st.table, s),
                     stp |-> (IF r.append THEN Append(st.stp, d.name) ELSE st.stp)
                             \o <<d.name>>,
                     raises |-> FALSE],
                    Tail(ds))

Resolve(ds) ==
    LET st == DeclareAll([objs |-> <<>>, table |-> <<>>, stp |-> <<>>,
                          raises |-> FALSE], ds)
    IN  IF st.raises THEN [objs |-> st.objs, raises |-> TRUE]
        ELSE post_process_styles(st.objs, st.table, Keys(st.table), st.stp)

Perms(n) == {f \in [1..n -> 1..n] : \A i, j \in 1..n : f[i] = f[j] => i = j}

\* styles.xml has been read and resolved, and nothing of content.xml yet
Resolved ==
    /\ pc = "idle"
    /\ part = "content"
    /\ \A i \in 1..Len(decls) : decls[i].part = "styles"

\* the sentinel the declared parent chain of n reaches within k steps, or None
RECURSIVE ChainSentinel(_, _)
ChainSentinel(n, k) ==
    IF n \in Sentinels THEN Some(n)
    ELSE IF k = 0 \/ n \notin DOMAIN objs THEN None
    ELSE LET up == all_styles_get(all_styles, objs[n].parent_name)
         IN  IF up = None THEN None ELSE ChainSentinel(up[1], k - 1)

\* C1: the resolved attributes and base_parent of every style are the same
\* for every permutation of the declarations of styles.xml
C1_OrderIndependent ==
    Resolved =>
        \A f \in Perms(Len(decls)) :
            LET r == Resolve([i \in 1..Len(decls) |-> decls[f[i]]])
            IN  /\ ~r.raises
                /\ \A n \in DOMAIN objs :
                      /\ r.objs[n].base_parent = objs[n].base_parent
                      /\ \A a \in StyleAttrs : r.objs[n][a] = objs[n][a]

\* C2: a resolution step (the constructor's inheritance, post_process_styles)
\* never changes an attribute that is not None, and a new style keeps every
\* attribute its own definition gave it; only the handler's assignment of a
\* declared property (StyleProps) writes over a value
C2_Step ==
    /\ ~(pc = "in_style" /\ pc' = "in_style") =>
          \A n \in DOMAIN objs : \A a \in StyleAttrs :
              objs[n][a] # None => objs'[n][a] = objs[n][a]
    /\ \A n \in (DOMAIN objs') \ (DOMAIN objs) :
          LET own == OdtStyle_fields(all_styles, n, objs'[n].parent_name,
                                     DisplayName(n))
          IN  \A a \in StyleAttrs : own[a] # None => objs'[n][a] = own[a]

C2_OwnValueWins == [][C2_Step]_vars

\* a style has inherited from a parent that holds another value for an
\* attribute the style defines itself
C2_Witness ==
    \E n \in DOMAIN objs :
        /\ n \notin Sentinels
        /\ objs[n].heritage_loaded
        /\ objs[n].is_title = Some(TRUE)
        /\ objs[objs[n].parent[1]].is_title = Some(FALSE)

\* C3: after resolution every style whose declared chain reaches a sentinel
\* has that sentinel as base_parent, and only a sentinel is its own parent
C3_BaseParentIsSentinel ==
    Resolved =>
        \A n \in DOMAIN objs :
            /\ ChainSentinel(n, MaxStyles + 1) # None
                  => objs[n].base_parent = ChainSentinel(n, MaxStyles + 1)
            /\ n \notin Sentinels => objs[n].parent # Some(n)

\* every declared parent is either never declared (it never enters the
\* table) or was declared before its child, and some parent is never declared
OnlyUnresolvedParents ==
    /\ \E i \in 1..Len(decls) : decls[i].parent_name \notin DeclaredNames
    /\ \A i \in 1..Len(decls) :
          \/ decls[i].name \in Sentinels
          \/ decls[i].parent_name \notin DeclaredNames
          \/ \E j \in 1..(i - 1) : decls[j].name = decls[i].parent_name

\* C4: a parent name that is never in the style table is not fatal
C4_UnresolvedParentNotFatal ==
    OnlyUnresolvedParents => err = ""

\* C5: a second post_process_styles over the table a first one produced
\* changes no field of any style
C5_Idempotent ==
    Resolved =>
        post_process_styles(objs, all_styles, Keys(all_styles), styles_to_parent)
            = [objs |-> objs, raises |-> FALSE]

C5_Witness ==
    /\ Resolved
    /\ \E n \in DOMAIN objs :
          /\ ~objs[n].heritage_loaded
          /\ objs[n].parent # None
          /\ objs[objs[n].parent[1]].base_parent # objs[n].parent

\* the lines of EmphasisLines with one marker that may open a span and no
\* marker after it
UnterminatedLines == { <<"*", "o", "o", "p", "s">> }

\* C6: a line whose opening marker has no closing marker comes back from
\* emphasise unchanged, marker included, and with no span
C6_UnterminatedUnchanged ==
    emph_line \in UnterminatedLines => emph_result = emph_line

\* the lines of EmphasisLines whose every marker follows a backslash
EscapedLines == { <<"\\", "*", "n", "\\", "*">> }

\* line without its backslashes
RECURSIVE Unescaped(_)
Unescaped(line) ==
    IF line = <<>> THEN <<>>
    ELSE IF Head(line) = "\\" THEN Unescaped(Tail(line))
    ELSE <<Head(line)>> \o Unescaped(Tail(line))

\* C7: a line whose markers all follow a backslash comes back from emphasise
\* with no span and without the backslashes
C7_EscapeConsumed ==
    emph_line \in EscapedLines => emph_result = Unescaped(emph_line)

\* the six marker pairs around the word x, with the flags of each
CanonicalLines ==
    { [line |-> <<"*", "*", "x", "*", "*">>, settings |-> BOLD],
      [line |-> <<"*", "x", "*">>, settings |-> ITALIC],
      [line |-> <<"_", "x", "_">>, settings |-> UNDERLINE],
      [line |-> <<"*", "*", "*", "x", "*", "*", "*">>, settings |-> BOLD_ITALIC],
      [line |-> <<"_", "*", "*", "x", "*", "*", "_">>, settings |-> BOLD_UNDERLINE],
      [line |-> <<"_", "*", "*", "*", "x", "*", "*", "*", "_">>,
       settings |-> BOLD_ITALIC_UNDERLINE] }

\* C8: emphasise turns each of the six marked words into one span whose style
\* has exactly the flags of the markers, and the reader turns that span back
\* into the same markers around the same word
C8_RoundTrip ==
    \A c \in CanonicalLines :
        emph_line = c.line =>
            /\ \E i \in 1..Len(automatic_styles) :
                  /\ emph_result = <<SpanTag(automatic_styles[i].name), "x", SpanEnd>>
                  /\ automatic_styles[i].props = StyleProperties(c.settings)
            /\ ReadParagraph(emph_result, automatic_styles) = c.line

\* the styles add_line gives a paragraph of the Scene Heading type
SceneHeadingStyles ==
    {"Scene_20_Heading", "Scene_20_Heading_20_PB", "Scene_20_Heading_20_ATi"}

\* line begins INT. or EXT. (and so has no sigil)
IsSceneLine(line) ==
    Prefix(line, 5) \in {<<"I", "N", "T", ".", " ">>, <<"E", "X", "T", ".", " ">>}

\* the paragraphs add_line appends in this step, the blank paragraph of a
\* pending blank line left out: in a turn of the main loop whose line is not
\* a note the j-th of them is the paragraph of lines[linenr + j]
Emitted ==
    SelectSeq(SubSeq(docbody', Len(docbody) + 1, Len(docbody')),
              LAMBDA para : para.style # "")

\* a turn of the main loop, on a line that is not a note, that raises
\* nothing
BodyTurn ==
    /\ pc = "body"
    /\ err' = ""
    /\ Prefix(lines[linenr + 1], 2) # <<"[", "[">>

\* the line after lines[i] is blank
BlankAfter(i) == strip(lines[i + 1], Whitespace) = <<>>

\* C9: every line beginning INT. or EXT. that is emitted gets the Scene
\* Heading type if and only if the line after it is blank
C9_Step ==
    BodyTurn =>
        \A j \in 1..Len(Emitted) :
            IsSceneLine(lines[linenr + j]) =>
                (Emitted[j].style \in SceneHeadingStyles <=> BlankAfter(linenr + j))

C9_SceneHeadingIffNextBlank == [][C9_Step]_vars

\* C9 amended: a line beginning INT. or EXT. that the main loop takes as its
\* current line gets the Scene Heading type if and only if the line after it
\* is blank, and no such line, the ones add_line takes into a run of
\* Dialogue included, gets the Scene Heading type before a line that is not
\* blank
C9_AmendedStep ==
    BodyTurn =>
        /\ Len(Emitted) > 0 /\ IsSceneLine(lines[linenr + 1]) =>
              (Emitted[1].style \in SceneHeadingStyles <=> BlankAfter(linenr + 1))
        /\ \A j \in 1..Len(Emitted) :
              IsSceneLine(lines[linenr + j])
              /\ Emitted[j].style \in SceneHeadingStyles
                 => BlankAfter(linenr + j)

C9_CurrentLineSceneHeading == [][C9_AmendedStep]_vars

\* a file is done in which one INT. line came before a line of text and was
\* not made a Scene Heading and another came before a blank line and was
C9_Witness ==
    /\ pc = "done"
    /\ \E i, k \in 1..Len(docbody) :
          /\ docbody[i].text = <<"I", "N", "T", ".", " ", "A">>
          /\ docbody[i].style \in SceneHeadingStyles
          /\ docbody[k].text = <<"I", "N", "T", ".", " ", "A">>
          /\ docbody[k].style \notin SceneHeadingStyles

(***************************************************************************)
(* odf2fountain.py: the rules of the semantic types and the                *)
(* read-direction engine.  The handler is passed as the record h: its      *)
(* fields are the variables of the reader and err; cs is the object of     *)
(* current_style.  A fountain type is the name of the FountainType member, *)
(* a rule in last_rule and in fountain_info is named by its name.          *)
(***************************************************************************)
\* DocumentState
TITLES == 0
BODY == 1
STARTING == 2

\* FountainRule.__init__
FountainRule(name, fountain_type, prefix, suffix, blank_before, blank_after, always_required, require_before) ==
    [name |-> name, fountain_type |-> fountain_type, prefix |-> prefix,
     suffix |-> suffix, blank_before |-> blank_before,
     blank_after |-> blank_after, always_required |-> always_required,
     require_before |-> require_before]

\* fountain_rules[name]; with --extendedfountain odf2fountain_main gives the
\* rule of Dialogue the prefix %
fountain_rules(name) ==
    CASE name = "Null" ->
            FountainRule("Null", "NULL", <<>>, <<>>, FALSE, FALSE, FALSE, <<>>)
      [] name = "Title" ->
            FountainRule("Title", "TITLE", <<"T", "i", "t", "l", "e", ":">>, <<>>,
                         FALSE, FALSE, TRUE, <<>>)
      [] name = "Action" ->
            FountainRule("Action", "ACTION", <<"!">>, <<>>, FALSE, FALSE, FALSE, <<>>)
      [] name = "Character" ->
            FountainRule("Character", "CHARACTER", <<"@">>, <<>>, TRUE, FALSE,
                         FALSE, <<>>)
      [] name = "Dialogue" ->
            FountainRule("Dialogue", "DIALOGUE",
                         IF extendedfountain THEN <<"%">> ELSE <<>>, <<>>,
                         FALSE, FALSE, FALSE,
                         <<"CHARACTER", "PARENTHETICAL", "DIALOGUE">>)
      [] name = "Notes" ->
            FountainRule("Notes", "NOTES", <<"[", "[">>, <<"]", "]">>, FALSE, FALSE,
                         TRUE, <<>>)
      [] name = "Parenthetical" ->
            FountainRule("Parenthetical", "PARENTHETICAL", <<"(">>, <<")">>, FALSE,
                         FALSE, TRUE, <<"CHARACTER", "DIALOGUE">>)
      [] name = "Scene" ->
            FountainRule("Scene", "SCENE_HEADING", <<".">>, <<>>, TRUE, TRUE, FALSE,
                         <<>>)
      [] name = "Transition" ->
            FountainRule("Transition", "TRANSITION", <<">">>, <<>>, TRUE, TRUE,
                         FALSE, <<>>)
      [] name = "Subtitle" ->
            FountainRule("Subtitle", "TITLE", <<>>, <<>>, FALSE, FALSE, FALSE, <<>>)
      [] name = "Centred" ->
            FountainRule("Centred", "ACTION", <<">">>, <<"<">>, FALSE, FALSE, TRUE,
                         <<>>)
      [] name = "Lyrics" ->
            FountainRule("Lyrics", "DIALOGUE", <<"~">>, <<>>, FALSE, FALSE, TRUE,
                         <<"CHARACTER", "PARENTHETICAL">>)

\* fountain_rules_by_type[fountain_type]
fountain_rules_by_type(fountain_type) ==
    CASE fountain_type = "NULL" -> fountain_rules("Null")
      [] fountain_type = "TITLE" -> fountain_rules("Title")
      [] fountain_type = "ACTION" -> fountain_rules("Action")
      [] fountain_type = "CHARACTER" -> fountain_rules("Character")
      [] fountain_type = "DIALOGUE" -> fountain_rules("Dialogue")
      [] fountain_type = "NOTES" -> fountain_rules("Notes")
      [] fountain_type = "PARENTHETICAL" -> fountain_rules("Parenthetical")
      [] fountain_type = "SCENE_HEADING" -> fountain_rules("Scene")
      [] fountain_type = "TRANSITION" -> fountain_rules("Transition")

\* OdtXmlTextHandler.outputText; the line enters body_types without a type
outputText(h, line) ==
    [h EXCEPT !.last_line_blank = (strip(line, Whitespace) = <<>>),
              !.groups[h.state] = Append(@, line),
              !.body_types = IF h.state = BODY THEN Append(@, "") ELSE @]

\* the last line of the body gets the fountain type of the rule that put it out
SetType(h, fountain_type) ==
    [h EXCEPT !.body_types = SubSeq(@, 1, Len(@) - 1) \o <<fountain_type>>]

\* outputFountainPart, lines 488-493: the line of a Character
CharacterLine(h, rule, line) ==
    IF rule.fountain_type # "CHARACTER" THEN line
    ELSE IF strip(line, Whitespace) = <<>> THEN h.last_character
    ELSE strip(line, Whitespace)

\* outputFountainPart, lines 488-493: last_character
CharacterSeen(h, rule, line) ==
    IF rule.fountain_type = "CHARACTER" /\ strip(line, Whitespace) # <<>>
    THEN [h EXCEPT !.last_character = strip(line, Whitespace)]
    ELSE h

\* outputFountainPart, lines 496-498; suffix is
\* self.current_style.fountain_info.suffix
PrefixedLine(rule, line, suffix) ==
    IF (forcetypes \/ rule.always_required)
       /\ Prefix(line, Len(rule.prefix)) # rule.prefix
    THEN rule.prefix \o strip(line, Whitespace) \o suffix
    ELSE line

\* the test of line 500 with the required types never looked at
NeedsPredecessor_never(rule, last_type) == FALSE

\* outputFountainPart, line 500:
\* rule.require_before and self.last_rule.fountain_type not in rule.require_before
NeedsPredecessor(rule, last_type) ==
    /\ rule.require_before # <<>>
    /\ \A i \in 1..Len(rule.require_before) : rule.require_before[i] # last_type

RECURSIVE outputFountainPart(_, _, _, _)

\* outputFountainPart, lines 500-501
RequireBefore(h, rule, suffix) ==
    IF NeedsPredecessor(rule, fountain_rules(h.last_rule).fountain_type)
    THEN outputFountainPart(h, fountain_rules_by_type(rule.require_before[1]),
                            <<>>, suffix)
    ELSE h

\* outputFountainPart, lines 503-504
BlankBeforeLine(h, rule) ==
    IF rule.blank_before /\ ~h.last_line_blank THEN outputText(h, <<>>) ELSE h

\* outputFountainPart, lines 505-506
OutputLine(h, rule, line) ==
    SetType(outputText([h EXCEPT !.last_rule = rule.name], line),
            rule.fountain_type)

\* outputFountainPart, lines 507-508
BlankAfterLine(h, rule) ==
    IF rule.blank_after THEN outputText(h, <<>>) ELSE h

\* OdtXmlTextHandler.outputFountainPart(rule, line)
outputFountainPart(h, rule, line, suffix) ==
    BlankAfterLine(
        OutputLine(
            BlankBeforeLine(
                RequireBefore(CharacterSeen(h, rule, line), rule, suffix), rule),
            rule, PrefixedLine(rule, CharacterLine(h, rule, line), suffix)),
        rule)

\* endElementNS, lines 448-449
UppercaseLine(cs, line) == IF Truthy(cs.uppercase) THEN upper(line) ELSE line

\* the page break marker appended whether or not the body has content
PageBreakState_always(h) ==
    IF h.state = TITLES THEN [h EXCEPT !.state = BODY]
    ELSE IF h.state = BODY
    THEN [h EXCEPT !.groups[BODY] = Append(@, <<"=", "=", "=">>),
                   !.body_types = Append(@, "")]
    ELSE h

\* endElementNS, lines 455-458: a style with page_break, after lines 453-454
PageBreakState(h) ==
    IF h.state = TITLES THEN [h EXCEPT !.state = BODY]
    ELSE IF h.state = BODY /\ h.groups[BODY] # <<>>
    THEN [h EXCEPT !.groups[BODY] = Append(@, <<"=", "=", "=">>),
                   !.body_types = Append(@, "")]
    ELSE h

\* endElementNS, lines 450-458
StyleState(h, cs) ==
    IF Truthy(cs.is_title) THEN [h EXCEPT !.state = TITLES]
    ELSE IF Truthy(cs.page_break)
    THEN PageBreakState(IF h.state = STARTING THEN [h EXCEPT !.state = BODY]
                        ELSE h)
    ELSE h

\* endElementNS, lines 466-472: the line of a title
TitleText(cs, line) ==
    IF line[1] \in {"\t", " "}
       \/ (cs.margin_left # None /\ cs.margin_left[1] > 25)
    THEN <<" ", " ", " ", " ">> \o strip(line, {" ", "\t"})
    ELSE IF Contains(line, ":") THEN strip(line, {" ", "\t"})
    ELSE <<"T", "i", "t", "l", "e", ":", " ">> \o strip(line, {" ", "\t"})

\* endElementNS, lines 465-476: a line that is not empty; state is TITLES or
\* BODY.  A style without fountain_info raises AttributeError.
OutputNonEmpty(h, cs, line) ==
    IF h.state = TITLES THEN outputText(h, TitleText(cs, line))
    ELSE IF cs.fountain_info = None THEN [h EXCEPT !.err = "AttributeError"]
    ELSE outputFountainPart(h, fountain_rules(cs.fountain_info[1]), line,
                            fountain_rules(cs.fountain_info[1]).suffix)

\* lines 459-476 with an empty paragraph leaving the state as it is
OutputParagraph_keep_state(h, cs, line) ==
    IF line = <<>> THEN h
    ELSE OutputNonEmpty(IF h.state = STARTING THEN [h EXCEPT !.state = TITLES]
                        ELSE h,
                        cs, line)

\* endElementNS, lines 459-476
OutputParagraph(h, cs, line) ==
    IF line = <<>>
    THEN IF h.state # STARTING THEN [h EXCEPT !.state = BODY] ELSE h
    ELSE OutputNonEmpty(IF h.state = STARTING THEN [h EXCEPT !.state = TITLES]
                        ELSE h,
                        cs, line)

\* endElementNS for </text:p>, lines 442-476, cs the object of current_style;
\* with no current style self.current_style.uppercase raises AttributeError
EndParagraph(h, cs, line) ==
    IF cs = None THEN [h EXCEPT !.err = "AttributeError"]
    ELSE OutputParagraph(StyleState(h, objs[cs[1]]), objs[cs[1]],
                         UppercaseLine(objs[cs[1]], line))

(***************************************************************************)
(* The reader as a state machine: odtFileDecode loads the styles of        *)
(* styles.xml and makes the handler, then the parser calls the handler     *)
(* for the paragraphs of content.xml, one after the other.                 *)
(***************************************************************************)
MaxParagraphs == 3

\* the styles.xml of the model, in the order of the writer's templates, with
\* the properties the reader looks at; the margins in points (5.59cm, 2.54cm
\* and 3.81cm)
ReadDecls ==
    << [name |-> "Standard", parent_name |-> "Standard", props |-> <<>>,
        part |-> "styles"],
       [name |-> "Script_20_Elements", parent_name |-> "Standard",
        props |-> <<>>, part |-> "styles"],
       [name |-> "Character", parent_name |-> "Script_20_Elements",
        props |-> <<[kw |-> "margin-left", value |-> Measure(158, "pt")],
                    [kw |-> "page-number", value |-> Text("auto")],
                    [kw |-> "text-transform", value |-> Text("uppercase")]>>,
        part |-> "styles"],
       [name |-> "Dialogue", parent_name |-> "Script_20_Elements",
        props |-> <<[kw |-> "margin-left", value |-> Measure(72, "pt")],
                    [kw |-> "page-number", value |-> Text("auto")]>>,
        part |-> "styles"],
       [name |-> "Scene_20_Heading", parent_name |-> "Script_20_Elements",
        props |-> <<[kw |-> "page-number", value |-> Text("auto")],
                    [kw |-> "text-transform", value |-> Text("uppercase")]>>,
        part |-> "styles"],
       [name |-> "Action", parent_name |-> "Script_20_Elements", props |-> <<>>,
        part |-> "styles"],
       [name |-> "Parenthetical", parent_name |-> "Script_20_Elements",
        props |-> <<[kw |-> "margin-left", value |-> Measure(108, "pt")]>>,
        part |-> "styles"],
       [name |-> "Lyrics", parent_name |-> "Dialogue",
        props |-> <<[kw |-> "font-style", value |-> Text("italic")]>>,
        part |-> "styles"],
       [name |-> "Title_20_Line", parent_name |-> "Script_20_Elements",
        props |-> <<>>, part |-> "styles"],
       [name |-> "Dialogue_20_PB", parent_name |-> "Dialogue",
        props |-> <<[kw |-> "page-number", value |-> Text("auto")],
                    [kw |-> "break-before", value |-> Text("page")]>>,
        part |-> "styles"] >>

\* load_ODT_styles: the declarations of styles.xml, then post_process_styles
ReadDeclared ==
    DeclareAll([objs |-> <<>>, table |-> <<>>, stp |-> <<>>, raises |-> FALSE],
               ReadDecls)
load_ODT_styles == Resolve(ReadDecls)

\* the style names of the paragraphs of content.xml; Unknown is not in
\* styles.xml
ParagraphStyles ==
    {"Standard", "Title_20_Line", "Action", "Character", "Dialogue", "Lyrics",
     "Parenthetical", "Dialogue_20_PB", "Scene_20_Heading", "Unknown"}

\* the texts of the paragraphs
ParagraphTexts == { <<"b">>, <<" ">> }

\* the handler as a record
Handler ==
    [state |-> state, groups |-> groups, last_line_blank |-> last_line_blank,
     last_rule |-> last_rule, last_character |-> last_character,
     body_types |-> body_types, err |-> err]

\* odf2fountain_main and odtFileDecode up to parser.parse: the options,
\* load_ODT_styles and OdtXmlTextHandler(lines)
odtFileDecode(ft, ext) ==
    /\ pc = "idle"
    /\ part = "styles"
    /\ decls = <<>>
    /\ forcetypes' = ft
    /\ extendedfountain' = ext
    /\ decls' = ReadDecls
    /\ objs' = load_ODT_styles.objs
    /\ all_styles' = ReadDeclared.table
    /\ styles_to_parent' = ReadDeclared.stp
    /\ part' = "content"
    /\ pc' = IF load_ODT_styles.raises THEN "crashed" ELSE "text"
    /\ err' = IF load_ODT_styles.raises THEN "AttributeError" ELSE err
    /\ UNCHANGED <<current_style, building_style>>
    /\ UNCHANGED <<state, groups, text_data, in_text, last_line_blank, last_rule,
                   last_character, body_types, paragraphs, previous_style>>
    /\ UNCHANGED <<codec_vars, engine_vars, lib_vars, post_vars, span_vars>>

\* OdtXmlTextHandler.startElementNS for <text:p text:style-name=name>
startElementNS_p(name) ==
    /\ pc = "text"
    /\ paragraphs < MaxParagraphs
    /\ text_data' = IF in_text = 0 THEN <<>> ELSE text_data
    /\ in_text' = in_text + 1
    /\ current_style' = IF all_styles_get(all_styles, name) # None
                        THEN all_styles_get(all_styles, name)
                        ELSE current_style
    /\ paragraphs' = paragraphs + 1
    /\ previous_style' = current_style
    /\ pc' = "paragraph"
    /\ UNCHANGED <<err, objs, all_styles, styles_to_parent, building_style, part,
                   decls>>
    /\ UNCHANGED <<forcetypes, extendedfountain, state, groups, last_line_blank,
                   last_rule, last_character, body_types>>
    /\ UNCHANGED <<codec_vars, engine_vars, lib_vars, post_vars, span_vars>>

\* OdtXmlTextHandler.characters(chars) in a paragraph
characters_p(chars) ==
    /\ pc = "paragraph"
    /\ text_data = <<>>
    /\ in_text > 0 /\ chars # <<>>
    /\ text_data' = Append(text_data, chars)
    /\ UNCHANGED resolver_vars
    /\ UNCHANGED <<forcetypes, extendedfountain, state, groups, in_text,
                   last_line_blank, last_rule, last_character, body_types,
                   paragraphs, previous_style>>
    /\ UNCHANGED <<codec_vars, engine_vars, lib_vars, post_vars, span_vars>>

\* the state after endElementNS leaves the handler as h
HandlerNext(h) ==
    /\ state' = h.state
    /\ groups' = h.groups
    /\ last_line_blank' = h.last_line_blank
    /\ last_rule' = h.last_rule
    /\ last_character' = h.last_character
    /\ body_types' = h.body_types
    /\ err' = h.err
    /\ pc' = IF h.err # "" THEN "crashed" ELSE "text"

\* OdtXmlTextHandler.endElementNS for </text:p>
endElementNS_p ==
    /\ pc = "paragraph"
    /\ in_text' = in_text - 1
    /\ text_data' = <<>>
    /\ HandlerNext(EndParagraph(Handler, current_style, Join(text_data)))
    /\ UNCHANGED <<objs, all_styles, styles_to_parent, current_style,
                   building_style, part, decls>>
    /\ UNCHANGED <<forcetypes, extendedfountain, paragraphs, previous_style>>
    /\ UNCHANGED <<codec_vars, engine_vars, lib_vars, post_vars, span_vars>>

ReaderNext ==
    \/ \E ft, ext \in BOOLEAN : odtFileDecode(ft, ext)
    \/ \E name \in ParagraphStyles : startElementNS_p(name)
    \/ \E chars \in ParagraphTexts : characters_p(chars)
    \/ endElementNS_p

ReaderSpec == Init /\ [][ReaderNext]_vars

\* the types a Dialogue or Parenthetical line may follow
PredecessorTypes == {"CHARACTER", "PARENTHETICAL", "DIALOGUE"}

\* the fountain type put out just before the i-th line of the body: the type
\* of the nearest line before it that has one, NULL (the type of the first
\* last_rule) when there is none
RECURSIVE TypeBefore(_)
TypeBefore(i) ==
    IF i = 1 THEN "NULL"
    ELSE IF body_types[i - 1] # "" THEN body_types[i - 1]
    ELSE TypeBefore(i - 1)

\* endElementNS gives a paragraph that is not empty to outputFountainPart
\* and raises nothing
BodyParagraph ==
    /\ pc = "paragraph"
    /\ err' = ""
    /\ Join(text_data) # <<>>
    /\ state' = BODY

\* the rule of the style of the paragraph
ParagraphRule == fountain_rules(objs[current_style[1]].fountain_info[1])

\* the rule of the paragraph declares require_before and the type of
\* last_rule is not in it
PredecessorMissing ==
    /\ ParagraphRule.require_before # <<>>
    /\ \A i \in 1..Len(ParagraphRule.require_before) :
          ParagraphRule.require_before[i] # fountain_rules(last_rule).fountain_type

C10_Step ==
    BodyParagraph /\ PredecessorMissing =>
        /\ Len(body_types') >= Len(body_types) + 2
        /\ body_types'[Len(body_types') - 1] = "CHARACTER"
        /\ body_types'[Len(body_types')] = ParagraphRule.fountain_type
        /\ groups'[BODY][Len(body_types') - 1] \in
              {last_character, <<"@">> \o last_character \o ParagraphRule.suffix}

C10_Always ==
    \A i \in 1..Len(body_types) :
        body_types[i] \in {"DIALOGUE", "PARENTHETICAL"} =>
            TypeBefore(i) \in PredecessorTypes

\* C10: in the read direction, when a Body paragraph whose rule declares
\* require_before (Dialogue, Lyrics, Parenthetical) arrives and the type put
\* out before it is not in that set, a Character placeholder line (the last
\* character name, empty when there is none) is put out just before the
\* paragraph's line; and in every state every Dialogue or Parenthetical line
\* of the body has Character, Parenthetical or Dialogue as the type put out
\* just before it
C10_RequiredPredecessor == []C10_Always /\ [][C10_Step]_vars

\* a lone Dialogue paragraph has been read: the body holds an empty Character
\* line and then the Dialogue line
C10_Witness ==
    /\ paragraphs = 1
    /\ pc = "text"
    /\ \E i \in 1..(Len(body_types) - 1) :
          /\ body_types[i] = "CHARACTER"
          /\ groups[BODY][i] = <<>>
          /\ body_types[i + 1] = "DIALOGUE"
          /\ groups[BODY][i + 1] = <<"b">>

\* the fountain type of the rule of the current style, "" when the style
\* has none
ParagraphType ==
    IF current_style = None \/ objs[current_style[1]].fountain_info = None THEN ""
    ELSE ParagraphRule.fountain_type

\* endElementNS for a Character paragraph without text that arrives in Body
\* after a Character paragraph with text
EmptyCharacter ==
    /\ pc = "paragraph"
    /\ pc' # "paragraph"
    /\ ParagraphType = "CHARACTER"
    /\ Join(text_data) = <<>>
    /\ state = BODY
    /\ last_character # <<>>

C11_Step ==
    EmptyCharacter =>
        /\ Len(groups'[BODY]) > Len(groups[BODY])
        /\ groups'[BODY][Len(groups'[BODY])] \in
              {last_character, <<"@">> \o last_character}

\* C11: in the read direction a Character paragraph whose text is empty,
\* arriving in Body after a Character paragraph with a name, puts the
\* remembered name out again as the last line of the body
C11_CharacterContinuation == [][C11_Step]_vars

\* the page break marker of the body
PageBreakMarker == <<"=", "=", "=">>

\* the style of the paragraph is flagged page_break and is not a title style
PageBreakStyle ==
    /\ ~Truthy(objs[current_style[1]].is_title)
    /\ Truthy(objs[current_style[1]].page_break)

\* this step appends the marker to the body, before anything else
MarkerAppended ==
    /\ Len(groups'[BODY]) > Len(groups[BODY])
    /\ groups'[BODY][Len(groups[BODY]) + 1] = PageBreakMarker

C12_Step ==
    pc = "paragraph" /\ pc' # "paragraph" /\ current_style # None =>
        (MarkerAppended <=>
            (PageBreakStyle /\ state = BODY /\ groups[BODY] # <<>>))

C12_Always == groups[BODY] # <<>> => groups[BODY][1] # PageBreakMarker

RoundTripLines ==
    << <<"T", "i", "t", "l", "e", ":", " ", "M", "y", " ", "P", "l", "a", "y">>,
       <<"A", "u", "t", "h", "o", "r", ":", " ", "J", "a", "n", "e", " ", "D", "o", "e">>,
       <<>>,
       <<"I", "N", "T", ".", " ", "R", "O", "O", "M", " ", "-", " ", "D", "A", "Y">>,
       <<>>,
       <<"J", "A", "N", "E">>,
       <<"H", "e", "l", "l", "o", ".">> >>

\* the files: the first n lines of RoundTripLines, with and without a blank
\* line after them
RoundTripFiles ==
    {SubSeq(RoundTripLines, 1, n) : n \in 2..Len(RoundTripLines)}
    \cup {Append(SubSeq(RoundTripLines, 1, n), <<>>) : n \in 2..Len(RoundTripLines)}

\* the styles.xml of the written document: the templates of ReadDecls and
\* of the two other styles the files use (5.08cm is 144 points), and the
\* Title style when the document template has one
RoundTripDecls(with_title) ==
    (IF with_title
     THEN << [name |-> "Title", parent_name |-> "Standard", props |-> <<>>,
              part |-> "styles"] >>
     ELSE <<>>)
    \o ReadDecls
    \o << [name |-> "Title_20_Line_20_Centered", parent_name |-> "Title_20_Line",
           props |-> <<[kw |-> "margin-left", value |-> Measure(144, "pt")]>>,
           part |-> "styles"],
          [name |-> "Scene_20_Heading_20_ATi", parent_name |-> "Scene_20_Heading",
           props |-> <<[kw |-> "page-number", value |-> Text("1")]>>,
           part |-> "styles"] >>

\* load_ODT_styles on that styles.xml: the table and the list after the
\* parse
RoundTripDeclared(with_title) ==
    DeclareAll([objs |-> <<>>, table |-> <<>>, stp |-> <<>>, raises |-> FALSE],
               RoundTripDecls(with_title))

\* odtFileDecode on the document process_file_contents made, up to
\* parser.parse: load_ODT_styles and OdtXmlTextHandler(lines)
odtFileDecode_written(with_title) ==
    /\ pc = "done"
    /\ docbody # <<>>
    /\ decls' = RoundTripDecls(with_title)
    /\ objs' = Resolve(RoundTripDecls(with_title)).objs
    /\ all_styles' = RoundTripDeclared(with_title).table
    /\ styles_to_parent' = RoundTripDeclared(with_title).stp
    /\ part' = "content"
    /\ pc' = IF Resolve(RoundTripDecls(with_title)).raises THEN "crashed"
             ELSE "reread"
    /\ err' = IF Resolve(RoundTripDecls(with_title)).raises THEN "AttributeError"
              ELSE err
    /\ UNCHANGED <<current_style, building_style>>
    /\ UNCHANGED <<codec_vars, engine_vars, reader_vars, lib_vars, post_vars, span_vars>>

\* startElementNS, lines 391-393, for a paragraph with the style name of
\* the document ("" for a paragraph without one)
ParagraphStyle(cs, name) ==
    IF name # "" /\ all_styles_get(all_styles, name) # None
    THEN all_styles_get(all_styles, name)
    ELSE cs

\* the state after the handler calls for one paragraph leave the handler
\* as h
RereadNext(h) ==
    /\ state' = h.state
    /\ groups' = h.groups
    /\ last_line_blank' = h.last_line_blank
    /\ last_rule' = h.last_rule
    /\ last_character' = h.last_character
    /\ body_types' = h.body_types
    /\ err' = h.err
    /\ pc' = IF h.err # "" THEN "crashed" ELSE "reread"

\* parser.parse: startElementNS, characters and endElementNS for the next
\* paragraph of the document
RereadParagraph ==
    /\ pc = "reread"
    /\ paragraphs < Len(docbody)
    /\ current_style' = ParagraphStyle(current_style, docbody[paragraphs + 1].style)
    /\ previous_style' = current_style
    /\ paragraphs' = paragraphs + 1
    /\ RereadNext(EndParagraph(Handler,
                      ParagraphStyle(current_style, docbody[paragraphs + 1].style),
                      ReadParagraph(docbody[paragraphs + 1].text, automatic_styles)))
    /\ UNCHANGED <<objs, all_styles, styles_to_parent, building_style, part,
                   decls>>
    /\ UNCHANGED <<forcetypes, extendedfountain, text_data, in_text>>
    /\ UNCHANGED <<codec_vars, engine_vars, lib_vars, post_vars, span_vars>>

RoundTripNext ==
    \/ \E texts \in RoundTripFiles : \E final_newline \in BOOLEAN :
          process_file_contents(texts, final_newline)
    \/ MainLoop
    \/ \E with_title \in BOOLEAN : odtFileDecode_written(with_title)
    \/ RereadParagraph

RoundTripSpec == Init /\ [][RoundTripNext]_vars


\* the file under process_file_contents is the seven lines of
\* RoundTripLines: self.lines is those lines and the '' appended by line 572
SevenLineInput ==
    /\ Len(lines) = Len(RoundTripLines) + 1
    /\ \A i \in 1..Len(RoundTripLines) : rstrip(lines[i], {"\n"}) = RoundTripLines[i]
    /\ lines[Len(lines)] = <<>>

\* the style names of the paragraphs of the document that hold text
WrittenStyles == SelectSeq([i \in 1..Len(docbody) |-> docbody[i].style], LAMBDA n : n # "")

\* the fountain types of the body paragraphs read so far
BodyTypes == SelectSeq(body_types, LAMBDA t : t # "")

\* C13: the seven-line input Title: My Play / Author: Jane Doe / blank /
\* INT. ROOM - DAY / blank / JANE / Hello. is processed to completion by the
\* write engine, into title paragraphs followed by a scene heading, a
\* character and a dialogue paragraph, and the read engine turns those
\* paragraphs into a Titles block followed by a Body whose fountain types
\* are SCENE_HEADING, CHARACTER, DIALOGUE.
C13_RoundTrip ==
    SevenLineInput =>
       /\ pc # "crashed"
       /\ pc \in {"done", "reread"} =>
             WrittenStyles = <<"Title", "Title Line Centered", "Scene_20_Heading_20_ATi",
                               "Character", "Dialogue">>
       /\ pc = "reread" /\ paragraphs = Len(docbody) =>
             /\ groups[TITLES] # <<>>
             /\ BodyTypes = <<"SCENE_HEADING", "CHARACTER", "DIALOGUE">>


\* C14: the input need not end with a blank line: for every file of two or
\* more lines, whether or not its last line is blank, process_file_contents
\* runs to completion; no lookahead reads past the end of the padded line
\* array or takes the first character of an empty line.
C14_NoTrailingBlankRequired ==
    Len(lines) >= 2 => ~(pc = "crashed" /\ err = "IndexError")

(***************************************************************************)
(* A run over several files: process_files calls process_file_contents for *)
(* each file in turn, on the one processor.                                *)
(***************************************************************************)
MaxFiles == 3

\* the files of a run, without their line ends: no line, one line, and
\* files of two and three lines
RunFiles ==
    { <<>>,
      << <<"H", "i">> >>,
      << <<"B", "O", "B">> >>,
      << <<"H", "i">>, <<>> >>,
      << <<"=", "=", "=">>, <<>> >>,
      << <<"@", "B">>, <<>> >>,
      << <<"B", "O", "B">>, <<"H", "i">>, <<>> >> }

\* process_files, lines 611-616: the call of process_file_contents for a
\* file after the first
process_files(texts, final_newline) ==
    /\ pc = "done"
    /\ files_read < MaxFiles
    /\ ProcessorNext(FilePrologue(Processor, Readlines(texts, final_newline)))
    /\ files_read' = files_read + 1
    /\ file_lines' = Readlines(texts, final_newline)
    /\ file_start' = Len(docbody)

RunNext ==
    \/ \E texts \in RunFiles : \E final_newline \in BOOLEAN :
          process_file_contents(texts, final_newline)
    \/ \E texts \in RunFiles : \E final_newline \in BOOLEAN :
          process_files(texts, final_newline)
    \/ MainLoop

RunSpec == Init /\ [][RunNext]_vars


\* the step is a call of process_file_contents
FileCall == files_read' = files_read + 1

\* a call with fewer than two lines changes nothing and the run goes on
C15_Degenerate ==
    FileCall /\ Len(file_lines') < 2 =>
       /\ UNCHANGED <<lines, linenr, maxline, style, last_style, blank_pending,
                      blank, last_blank, page_break_required, last_title_style,
                      docbody>>
       /\ UNCHANGED codec_vars
       /\ err' = ""
       /\ pc' = "done"

\* the file that follows a file of fewer than two lines is taken up
C15_Following ==
    FileCall /\ files_read >= 1 /\ Len(file_lines) < 2 /\ Len(file_lines') >= 2 =>
       /\ lines' = FileStart(Processor, file_lines').lines
       /\ maxline' = FileStart(Processor, file_lines').maxline

\* C15: process_file_contents called with fewer than two lines emits no
\* paragraph and leaves the engine state (last_style, style, blank,
\* last_blank, blank_pending, page_break_required, the titles and the body)
\* unchanged, and the files that follow in the run are still processed.
C15_DegenerateNoOp == [][C15_Degenerate /\ C15_Following]_vars

\* a file of one line has been read after a file that left a paragraph and
\* a style behind
C15_Witness ==
    /\ pc = "done"
    /\ files_read = 2
    /\ Len(file_lines) = 1
    /\ docbody # <<>>
    /\ last_style = "Action"
    /\ ~last_blank

(***************************************************************************)
(* add_line called on the processor, new or after a file, with style names *)
(* that known_styles has and with one it has not.                          *)
(***************************************************************************)
MaxAdded == 3

AddLineStyles == {"Action", "Character", "Scene Heading", "Shot"}
AddLineTexts == { <<"x">>, <<" ">> }

\* files that leave blank_pending and page_break_required set
AddLineFiles ==
    { << <<"H", "i">>, <<>>, <<>> >>,
      << <<"=", "=", "=">>, <<>> >> }

AddLine(line, para_style) ==
    /\ pc \in {"idle", "done"}
    /\ Len(docbody) < MaxAdded
    /\ ProcessorNext(add_line(Processor, line, para_style, None, FALSE))
    /\ UNCHANGED <<files_read, file_lines, file_start>>

AddLineNext ==
    \/ \E texts \in AddLineFiles : \E final_newline \in BOOLEAN :
          process_file_contents(texts, final_newline)
    \/ MainLoop
    \/ \E line \in AddLineTexts, para_style \in AddLineStyles :
          AddLine(line, para_style)

AddLineSpec == Init /\ [][AddLineNext]_vars

\* the step is a call of add_line whose style name, after substitution and
\* page-break naming, is not in known_styles
UnknownStyleAdded ==
    /\ pc \in {"idle", "done"}
    /\ Len(docbody') > Len(docbody)
    /\ internal_style_name(local_style(Processor, style')) \notin KnownStyles

\* C16: when the style name add_line arrives at is not in the known style
\* catalogue, the paragraph is rendered with the Action style: the style
\* name written on the paragraph and the style used for the blank-before
\* and blank-after decisions are both Action's.
C16_Step ==
    UnknownStyleAdded =>
       /\ docbody'[Len(docbody')].style = "Action"
       /\ Len(docbody') = Len(docbody) + 2 <=>
             (blank_pending /\ ~is_space_before("Action"))
       /\ blank' = (is_space_after("Action")
                    \/ strip(docbody'[Len(docbody')].text, Whitespace) = <<>>)
C16_UnknownStyleFallback == [][C16_Step]_vars


\* FountainProcessor.__init__, lines 679-688: the engine state of a new
\* processor; the style catalogue and the cache of automatic styles stay
NewProcessor ==
    [Processor EXCEPT !.lines = <<>>, !.linenr = 0, !.maxline = 0, !.style = "",
                      !.last_style = "", !.blank_pending = FALSE, !.blank = TRUE,
                      !.last_blank = TRUE, !.page_break_required = FALSE,
                      !.docbody = <<>>, !.err = ""]

\* the while loop of process_file_contents, lines 581-608
RECURSIVE RunLoop(_)
RunLoop(fp) ==
    IF fp.err # "" \/ fp.linenr >= fp.maxline THEN fp
    ELSE RunLoop(LoopBody(fp))

\* the paragraphs emitted for the file of the last call
FileParagraphs == SubSeq(docbody, file_start + 1, Len(docbody))

\* C17: when several files are processed in one run, the paragraphs emitted
\* for a file depend only on that file's lines: last_style, last_blank,
\* blank_pending and page_break_required left by an earlier file do not
\* influence a later file.
C17_CrossFileIsolation ==
    pc = "done" /\ files_read >= 2 /\ Len(file_lines) >= 2 =>
       FileParagraphs = RunLoop(FilePrologue(NewProcessor, file_lines)).docbody

(***************************************************************************)
(* lib/odf_fountain_lib.py: coalesce called with up to MaxArgs arguments.  *)
(***************************************************************************)
MaxArgs == 3

\* the arguments: None, the values Python takes as false, and a string
CoalesceValues == {None} \cup {Some(v) : v \in Falsy \cup {"This"}}

Coalesce(args) ==
    /\ lib_call' = [fn |-> "coalesce", args |-> args]
    /\ lib_result' = coalesce_args(args)
    /\ UNCHANGED <<resolver_vars, codec_vars, engine_vars, reader_vars, post_vars, span_vars>>

CoalesceNext ==
    \E n \in 0..MaxArgs : \E args \in [1..n -> CoalesceValues] : Coalesce(args)

CoalesceSpec == Init /\ [][CoalesceNext]_vars

\* the positions of the arguments of the last call that are not None
NotNone == {i \in 1..Len(lib_call.args) : lib_call.args[i] # None}

\* C18: coalesce returns the first of its arguments, in argument order,
\* that is not None (False, 0 and the empty string are values and are
\* returned), and None when called with no argument or with None only.
C18_Coalesce ==
    lib_call.fn = "coalesce" =>
       /\ NotNone = {} => lib_result = None
       /\ NotNone # {} =>
             \E i \in NotNone :
                /\ \A j \in NotNone : i <= j
                /\ lib_result = lib_call.args[i]

\* coalesce(None, False, 'This') has returned False
C18_Witness ==
    /\ lib_call = [fn |-> "coalesce", args |-> <<None, Some("False"), Some("This")>>]
    /\ lib_result = Some("False")

(***************************************************************************)
(* lib/odf_fountain_lib.py: ArgOptions.  self.args is the sequence of the  *)
(* declared arguments in the order of declaration; a namespace is the      *)
(* sequence of [name, value] that argparse returns, value None or a        *)
(* one-element tuple.                                                      *)
(***************************************************************************)
\* ArgOptions.Arg.__init__, lines 75-78, and add_argument: pargs[0], the
\* name without its dashes, nargs and the default of kw (None when kw has
\* none)
Arg(parg, nargs, default) ==
    [parg |-> parg, name |-> strip(parg, {"-"}), nargs |-> nargs,
     default |-> default]

\* ArgOptions.set_default without an effect
set_default_skip(args, opt, default) == args

\* ArgOptions.set_default, lines 84-89: an unknown option is skipped
set_default(args, opt, default) ==
    [i \in 1..Len(args) |->
        IF args[i].name = opt THEN [args[i] EXCEPT !.default = Some(default)]
        ELSE args[i]]

\* create_parser, lines 91-99: self.args after the call, which are the
\* arguments of the parser
create_parser(args, config) ==
    IF config /\ ~\E i \in 1..Len(args) : args[i].name = <<"c", "o", "n", "f", "i", "g">>
    THEN Append(args, Arg(<<"-", "-", "c", "o", "n", "f", "i", "g">>, "", None))
    ELSE args

\* argparse: the leading tokens of argv that are no options, and the
\* positions of the options of argv
Positionals(argv) ==
    IF \E i \in 1..Len(argv) : Head(argv[i]) = "-"
    THEN SubSeq(argv, 1, (CHOOSE i \in 1..Len(argv) :
                             /\ Head(argv[i]) = "-"
                             /\ \A j \in 1..(i - 1) : Head(argv[j]) # "-") - 1)
    ELSE argv
OptionAt(argv) == {i \in 1..Len(argv) : Head(argv[i]) = "-"}

\* argparse: the value of the declared argument a, the k-th positional when
\* it is one: nargs='+' takes the positional tokens from the k-th on as a
\* list, an option takes the token after its last occurrence, or its
\* default
ArgValue(a, k, argv) ==
    IF Head(a.parg) # "-"
    THEN IF a.nargs = "+"
         THEN Some(SubSeq(Positionals(argv), k, Len(Positionals(argv))))
         ELSE Some(Positionals(argv)[k])
    ELSE IF \E i \in OptionAt(argv) : argv[i] = a.parg
         THEN Some(argv[(CHOOSE i \in OptionAt(argv) :
                            /\ argv[i] = a.parg
                            /\ \A j \in OptionAt(argv) : argv[j] = a.parg => j <= i) + 1])
         ELSE a.default

\* ArgumentParser.parse_args(argv), lines 106 and 125: SystemExit for an
\* option that is not declared or too few positional tokens
argparse_parse_args(args, argv) ==
    IF \/ \E i \in OptionAt(argv) : \A j \in 1..Len(args) : args[j].parg # argv[i]
       \/ Len(Positionals(argv)) <
             Cardinality({j \in 1..Len(args) : Head(args[j].parg) # "-"})
    THEN [err |-> "SystemExit", ns |-> <<>>]
    ELSE [err |-> "",
          ns |-> [j \in 1..Len(args) |->
                    [name |-> args[j].name,
                     value |-> ArgValue(args[j],
                                  Cardinality({i \in 1..j : Head(args[i].parg) # "-"}),
                                  argv)]]]

\* getattr(user_options, name): None when the namespace has no such name
Attr(ns, name) ==
    IF \E i \in 1..Len(ns) : ns[i].name = name
    THEN ns[CHOOSE i \in 1..Len(ns) : ns[i].name = name].value
    ELSE None

\* user_options.__setattr__(opt, True) for each opt of storeTrues
RECURSIVE SetTrue(_, _)
SetTrue(ns, opts) ==
    IF opts = <<>> THEN ns
    ELSE SetTrue(IF \E i \in 1..Len(ns) : ns[i].name = Head(opts)
                 THEN [i \in 1..Len(ns) |->
                         IF ns[i].name = Head(opts)
                         THEN [ns[i] EXCEPT !.value = Some(<<"T", "r", "u", "e">>)] ELSE ns[i]]
                 ELSE Append(ns, [name |-> Head(opts), value |-> Some(<<"T", "r", "u", "e">>)]),
                 Tail(opts))

\* parse_args, lines 113-122, for one stripped line of the file: st is
\* [args, storeTrues, err].  The lines of the model hold no tab, so
\* split(maxsplit=1) cuts at the first space.
ConfigLine(st, line) ==
    IF line = <<>> THEN [st EXCEPT !.err = "IndexError"]
    ELSE IF Head(line) = "#" THEN st
    ELSE IF Contains(line, "=")
    THEN [st EXCEPT !.args =
            set_default(@, strip(SubSeq(line, 1, Find(line, <<"=">>) - 1), Whitespace),
                        strip(From(line, Find(line, <<"=">>) + 1), Whitespace))]
    ELSE IF Contains(line, " ")
    THEN [st EXCEPT !.args =
            set_default(@, SubSeq(line, 1, Find(line, <<" ">>) - 1),
                        strip(From(line, Find(line, <<" ">>) + 1), Whitespace))]
    ELSE [st EXCEPT !.storeTrues = Append(@, line)]

\* parse_args, lines 111-122: the for loop over the lines of the file
RECURSIVE ConfigLines(_, _)
ConfigLines(st, file) ==
    IF file = <<>> \/ st.err # "" THEN st
    ELSE ConfigLines(ConfigLine(st, strip(Head(file), {"\t", "\r", "\n", " ", "-"})),
                     Tail(file))

\* parse_args, lines 123-127: the second pass, on the defaults st holds
SecondPass(st, config, argv) ==
    IF st.err # "" THEN [err |-> st.err, ns |-> <<>>]
    ELSE [err |-> argparse_parse_args(create_parser(st.args, config), argv).err,
          ns |-> SetTrue(argparse_parse_args(create_parser(st.args, config), argv).ns,
                         st.storeTrues)]

\* ArgOptions.parse_args(argv) with parser=None, on the declared arguments
\* args, with the file that --config names holding the lines file
parse_args(args, config, argv, file) ==
    IF argv = <<>> \/ argparse_parse_args(create_parser(args, config), argv).err # ""
    THEN [err |-> "SystemExit", ns |-> <<>>]
    ELSE IF Attr(argparse_parse_args(create_parser(args, config), argv).ns, <<"c", "o", "n", "f", "i", "g">>) = None
    THEN argparse_parse_args(create_parser(args, config), argv)
    ELSE SecondPass(ConfigLines([args |-> create_parser(args, config),
                                 storeTrues |-> <<>>, err |-> ""], file),
                    config, argv)

MaxConfigLines == 2

\* the declarations of test_lib_access.py: prog, files and --test with
\* default No, with --config declared or not
Declared(with_config) ==
    << Arg(<<"p", "r", "o", "g">>, "", None), Arg(<<"f", "i", "l", "e", "s">>, "+", None), Arg(<<"-", "-", "t", "e", "s", "t">>, "", Some(<<"N", "o">>)) >>
    \o (IF with_config THEN << Arg(<<"-", "-", "c", "o", "n", "f", "i", "g">>, "", None) >> ELSE <<>>)

\* the command lines: prog file, with --test Cmd and with --config c or
\* without
CommandLine(with_test, with_config) ==
    << <<"p", "r", "o", "g">>, <<"f", "i", "l", "e">> >>
    \o (IF with_test THEN << <<"-", "-", "t", "e", "s", "t">>, <<"C", "m", "d">> >> ELSE <<>>)
    \o (IF with_config THEN << <<"-", "-", "c", "o", "n", "f", "i", "g">>, <<"c">> >> ELSE <<>>)

\* the lines of the file: two that set test, a comment, the names of the
\* positional arguments, a name that is not declared, a flag, and a blank
\* line
ConfigFileLines ==
    { <<"t", "e", "s", "t", "=", "Y", "e", "s", "\n">>, <<"-", "-", "t", "e", "s", "t", " ", "=", " ", "S", "i", "\n">>, <<"#", "t", "e", "s", "t", "=", "x", "\n">>, <<"f", "i", "l", "e", "s", "=", "x", "\n">>, <<"p", "r", "o", "g", "=", "y", "\n">>,
      <<"o", "t", "h", "e", "r", "=", "1", "\n">>, <<"d", "e", "b", "u", "g", "\n">>, <<"\n">> }

\* one call of parse_args on a new ArgOptions
ParseArgs(args, config, argv, file) ==
    /\ lib_call.fn = ""
    /\ lib_call' = [fn |-> "parse_args",
                    args |-> [declared |-> args, config |-> config, argv |-> argv,
                              file |-> file]]
    /\ lib_result' = parse_args(args, config, argv, file)
    /\ UNCHANGED <<resolver_vars, codec_vars, engine_vars, reader_vars, post_vars, span_vars>>

ArgNext ==
    \E declared_config, config, with_test, with_config \in BOOLEAN :
       \E n \in 0..MaxConfigLines : \E file \in [1..n -> ConfigFileLines] :
          ParseArgs(Declared(declared_config), config,
                    CommandLine(with_test, with_config), file)

ArgSpec == Init /\ [][ArgNext]_vars


\* the command line of the last call holds the option parg
OnCommandLine(parg) ==
    \E i \in 1..Len(lib_call.args.argv) : lib_call.args.argv[i] = parg

\* the value a line of the file gives to the option test, None for a line
\* that is no key=value line for it
TestValue(line) ==
    CASE line = <<"t", "e", "s", "t", "=", "Y", "e", "s", "\n">> -> Some(<<"Y", "e", "s">>)
      [] line = <<"-", "-", "t", "e", "s", "t", " ", "=", " ", "S", "i", "\n">> -> Some(<<"S", "i">>)
      [] OTHER -> None

\* the positions of the lines of the file that give test a value
TestLines ==
    {i \in 1..Len(lib_call.args.file) : TestValue(lib_call.args.file[i]) # None}

\* what the file makes of the default of test: the value of the last
\* key=value line for it, the declared default without one
ConfigDefault ==
    IF OnCommandLine(<<"-", "-", "c", "o", "n", "f", "i", "g">>) /\ TestLines # {}
    THEN TestValue(lib_call.args.file[CHOOSE i \in TestLines : \A j \in TestLines : j <= i])
    ELSE Some(<<"N", "o">>)

\* C19: in ArgOptions.parse_args a key=value line of the file named by
\* --config replaces the declared default of option key: the options
\* returned carry the value of the file when the option is absent from the
\* command line and the value of the command line when it is present; the
\* positional arguments are unaffected; and a --config option is added
\* when ArgOptions was constructed with config=True and none was declared.
C19_ConfigMerge ==
    lib_call.fn = "parse_args" =>
       /\ lib_call.args.config => lib_result.err # "SystemExit"
       /\ lib_result.err = "" =>
             /\ Attr(lib_result.ns, <<"t", "e", "s", "t">>) =
                   IF OnCommandLine(<<"-", "-", "t", "e", "s", "t">>) THEN Some(<<"C", "m", "d">>) ELSE ConfigDefault
             /\ Attr(lib_result.ns, <<"p", "r", "o", "g">>) = Some(<<"p", "r", "o", "g">>)
             /\ Attr(lib_result.ns, <<"f", "i", "l", "e", "s">>) = Some(<< <<"f", "i", "l", "e">> >>)
             /\ lib_call.args.config =>
                   \E i \in 1..Len(lib_result.ns) : lib_result.ns[i].name = <<"c", "o", "n", "f", "i", "g">>

\* test_arg_parse_magic_config: no --config declared, config=True, the file
\* holds test=Yes, and the options returned have test = Yes
C19_Witness ==
    /\ lib_call.fn = "parse_args"
    /\ lib_call.args.config
    /\ lib_call.args.declared = Declared(FALSE)
    /\ lib_call.args.argv = CommandLine(FALSE, TRUE)
    /\ lib_call.args.file = << <<"t", "e", "s", "t", "=", "Y", "e", "s", "\n">> >>
    /\ lib_result.err = ""
    /\ Attr(lib_result.ns, <<"t", "e", "s", "t">>) = Some(<<"Y", "e", "s">>)
    /\ Attr(lib_result.ns, <<"c", "o", "n", "f", "i", "g">>) = Some(<<"c">>)

(***************************************************************************)
(* post_process_styles with its loops as steps: the call made by           *)
(* load_ODT_styles after the parse, one step for each style of this_pass   *)
(* and one for the end of each scan.                                       *)
(***************************************************************************)
\* redo with "not larger" in place of "smaller"
Redo_not_larger(queued, this_pass) == Len(queued) <= Len(this_pass)

\* lines 317 and 333: redo = len(next_pass) < len(this_pass)
Redo(queued, this_pass) == Len(queued) < Len(this_pass)

\* the declarations of a styles.xml: up to MaxStyles styles with different
\* names, each with a parent name, declared or not
PostDecls ==
    UNION {{ds \in [1..n -> [name : StyleNames, parent_name : ParentNames,
                             props : {<<>>}, part : {"styles"}]] :
               \A i, j \in 1..n : ds[i].name = ds[j].name => i = j} :
           n \in 1..MaxStyles}

\* the state when the parse of styles.xml has left st: the call of
\* post_process_styles of line 348, up to its first loop
PostStart(st) ==
    /\ objs' = st.objs
    /\ all_styles' = st.table
    /\ styles_to_parent' = st.stp
    /\ pass_queue' = Keys(st.table)
    /\ pc' = IF st.raises THEN "crashed" ELSE "pass1"
    /\ err' = IF st.raises THEN "AttributeError" ELSE err

\* load_ODT_styles on a styles.xml that declares ds, up to the first loop
\* of post_process_styles
load_ODT_styles_call(ds) ==
    /\ pc = "idle"
    /\ part = "styles"
    /\ decls = <<>>
    /\ decls' = ds
    /\ part' = "content"
    /\ PostStart(DeclareAll([objs |-> <<>>, table |-> <<>>, stp |-> <<>>,
                             raises |-> FALSE], ds))
    /\ UNCHANGED <<current_style, building_style, pass_pos, pass_next>>
    /\ UNCHANGED <<codec_vars, engine_vars, reader_vars, lib_vars, span_vars>>

\* the state after the body of the first loop for the key at pass_pos,
\* whose outcome is r
Pass1StyleDone(r) ==
    /\ objs' = r.objs
    /\ err' = IF r.raises THEN "AttributeError" ELSE err
    /\ pc' = IF r.raises THEN "crashed" ELSE pc
    /\ pass_next' = IF ~r.raises /\ r.requeue
                    THEN Append(pass_next, pass_queue[pass_pos])
                    ELSE pass_next

\* lines 304-316: the body of the for loop of the first loop, for one key
Pass1Turn ==
    /\ pc = "pass1"
    /\ pass_pos <= Len(pass_queue)
    /\ Pass1StyleDone(Pass1Style(objs, all_styles, pass_queue[pass_pos]))
    /\ pass_pos' = pass_pos + 1
    /\ UNCHANGED <<all_styles, styles_to_parent, current_style, building_style,
                   part, decls, pass_queue>>
    /\ UNCHANGED <<codec_vars, engine_vars, reader_vars, lib_vars, span_vars>>

\* lines 317 and 301-303, then 323: the end of a scan of the first loop; the
\* loop goes on with what was queued, or the second loop starts
Pass1End ==
    /\ pc = "pass1"
    /\ pass_pos > Len(pass_queue)
    /\ pc' = IF Redo(pass_next, pass_queue) THEN "pass1" ELSE "pass2"
    /\ pass_queue' = IF Redo(pass_next, pass_queue) THEN pass_next
                     ELSE styles_to_parent
    /\ pass_pos' = 1
    /\ pass_next' = <<>>
    /\ UNCHANGED <<err, objs, all_styles, styles_to_parent, current_style,
                   building_style, part, decls>>
    /\ UNCHANGED <<codec_vars, engine_vars, reader_vars, lib_vars, span_vars>>

\* lines 329-332 for the style named o: the table of objects after it
Pass2Style(os, table, o) ==
    IF os[o].parent_name # "" /\ ~os[o].heritage_loaded
    THEN Pass2Assign(os, o, assign_parent_by_name(os[o], table, os[o].parent_name))
    ELSE os

\* lines 328-332: the body of the for loop of the second loop, for one
\* style; it is queued again when it was looked at and is still without
\* its heritage
Pass2Turn ==
    /\ pc = "pass2"
    /\ pass_pos <= Len(pass_queue)
    /\ objs' = Pass2Style(objs, all_styles, pass_queue[pass_pos])
    /\ pass_next' =
          IF /\ objs[pass_queue[pass_pos]].parent_name # ""
             /\ ~objs[pass_queue[pass_pos]].heritage_loaded
             /\ ~Pass2Style(objs, all_styles,
                            pass_queue[pass_pos])[pass_queue[pass_pos]].heritage_loaded
          THEN Append(pass_next, pass_queue[pass_pos])
          ELSE pass_next
    /\ pass_pos' = pass_pos + 1
    /\ UNCHANGED <<pc, err, all_styles, styles_to_parent, current_style,
                   building_style, part, decls, pass_queue>>
    /\ UNCHANGED <<codec_vars, engine_vars, reader_vars, lib_vars, span_vars>>

\* line 333 and 325-327: the end of a scan of the second loop; the loop
\* goes on with what was queued, or post_process_styles returns
Pass2End ==
    /\ pc = "pass2"
    /\ pass_pos > Len(pass_queue)
    /\ pc' = IF Redo(pass_next, pass_queue) THEN "pass2" ELSE "idle"
    /\ pass_queue' = IF Redo(pass_next, pass_queue) THEN pass_next ELSE <<>>
    /\ pass_pos' = 1
    /\ pass_next' = <<>>
    /\ UNCHANGED <<err, objs, all_styles, styles_to_parent, current_style,
                   building_style, part, decls>>
    /\ UNCHANGED <<codec_vars, engine_vars, reader_vars, lib_vars, span_vars>>

PostNext ==
    \/ \E ds \in PostDecls : load_ODT_styles_call(ds)
    \/ Pass1Turn
    \/ Pass1End
    \/ Pass2Turn
    \/ Pass2End

\* the loops run: a step that can be taken is taken
PostSpec ==
    /\ Init /\ [][PostNext]_vars
    /\ WF_vars(Pass1Turn) /\ WF_vars(Pass1End)
    /\ WF_vars(Pass2Turn) /\ WF_vars(Pass2End)


\* post_process_styles is in one of its loops
InLoop == pc \in {"pass1", "pass2"}

\* a loop repeats only with a queue shorter than the one just scanned
C20_Step ==
    InLoop /\ pc' = pc /\ pass_queue' # pass_queue =>
       Len(pass_queue') < Len(pass_queue)

\* C20: post_process_styles terminates for every finite style table,
\* tables with unresolved parent names, self-parented styles that are no
\* sentinels and cyclic parent declarations included; each of its two loops
\* repeats only while the re-queued set is strictly smaller than the set
\* just scanned.  The call has ended when it has returned (pc = "idle") or
\* raised (pc = "crashed").
C20_Terminates ==
    (InLoop ~> (pc = "idle" \/ pc = "crashed")) /\ [][C20_Step]_vars


\* post_process_styles has returned on a table whose styles.xml declares a
\* cycle of parents (through a sentinel, whose own parent is not looked at)
\* and a style whose parent is never declared, after a loop has repeated
C20_Witness ==
    /\ pc = "idle"
    /\ part = "content"
    /\ Len(decls) = 3
    /\ \E i, j \in 1..Len(decls) :
          /\ i # j
          /\ decls[i].parent_name = decls[j].name
          /\ decls[j].parent_name = decls[i].name
    /\ \E i \in 1..Len(decls) : decls[i].parent_name = "Missing"

(***************************************************************************)
(* C21: the attributes after resolution                                    *)
(***************************************************************************)
\* the declaration of the style named n
DeclOf(n) == decls[CHOOSE i \in 1..Len(decls) : decls[i].name = n]

\* the attributes a style has of its own: those the constructor gives it
\* from its name (lines 170-212) and those its properties elements set
OwnFields(d) ==
    SetProps(OdtStyle_branch(OdtStyle_common(d.name, d.parent_name,
                                             DisplayName(d.name)), None),
             d.props)

\* the declared parent chain of n reaches a sentinel within k steps
RECURSIVE ChainReachesSentinel(_, _)
ChainReachesSentinel(n, k) ==
    \/ n \in Sentinels /\ n \in DeclaredNames
    \/ /\ k > 0
       /\ n \in DeclaredNames
       /\ n \notin Sentinels
       /\ ChainReachesSentinel(DeclOf(n).parent_name, k - 1)

\* the first non-null value of the attribute walking from n up to the sentinel
RECURSIVE FirstNonNull(_, _)
FirstNonNull(n, attr) ==
    IF OwnFields(DeclOf(n))[attr] # None \/ n \in Sentinels
    THEN OwnFields(DeclOf(n))[attr]
    ELSE FirstNonNull(DeclOf(n).parent_name, attr)

AfterResolution == pc = "idle" /\ part = "content"

\* C21: after resolution every style whose declared parent chain reaches a
\* sentinel is marked heritage-loaded, and each of its attributes is the
\* first non-null value on the way from the style up to the sentinel
C21_CoalescedFromAncestors ==
    AfterResolution =>
        \A n \in DeclaredNames :
            ChainReachesSentinel(n, MaxStyles) =>
                /\ objs[n].heritage_loaded
                /\ \A attr \in StyleAttrs : objs[n][attr] = FirstNonNull(n, attr)

(***************************************************************************)
(* C22: the boundary rule                                                  *)
(***************************************************************************)
\* the positions of line where a marker may open a span: a marker character
\* at the start of the line or right after a character of required_before
\* (every marker begins with * or _)
MayOpen(line, required_before) ==
    {i \in 1..Len(line) :
        /\ line[i] \in {"*", "_"}
        /\ i = 1 \/ line[i - 1] \in required_before}

IsSpanTag(tok) == \E n \in 1..MaxAutoStyle : tok = SpanTag(AutoStyleName(n))

\* the number of spans of result that lie in no other span: the spans the
\* outermost call of emphasise opened that no other span encloses
RECURSIVE TopSpans(_, _)
TopSpans(result, depth) ==
    IF result = <<>> THEN 0
    ELSE IF IsSpanTag(Head(result))
    THEN (IF depth = 0 THEN 1 ELSE 0) + TopSpans(Tail(result), depth + 1)
    ELSE IF Head(result) = SpanEnd THEN TopSpans(Tail(result), depth - 1)
    ELSE TopSpans(Tail(result), depth)

\* C22: the outermost call of emphasise opens a span only at a marker that
\* stands, in the line it was given, at position 0 or right after a character
\* of required_before; so it opens no more spans than the line has such
\* positions, and none in a line that has none
C22_BoundaryRule ==
    TopSpans(emph_result, 0) <= Cardinality(MayOpen(emph_line, emph_before))

(***************************************************************************)
(* C23, C24: the automatic styles of the spans                             *)
(***************************************************************************)
\* C23: over the calls of emphasise of one run no two automatic styles are
\* made for the same combination of bold, italic and underline: a span whose
\* combination has a style already takes that style, also when the
\* combination comes from a span within a span
C23_OneStylePerCombination ==
    \A i, j \in 1..Len(automatic_styles) :
        automatic_styles[i].requested = automatic_styles[j].requested => i = j

\* C24: every span emphasise makes names an automatic style whose bold, italic
\* and underline properties are exactly the flags of the span: those of the
\* marker that opened it and of the markers of the spans around it
C24_SpanFlagsExact ==
    \A k \in 1..Len(emph_spans) :
        \E i \in 1..Len(automatic_styles) :
            /\ automatic_styles[i].name = emph_spans[k].style
            /\ automatic_styles[i].props = StyleProperties(emph_spans[k].settings)

(***************************************************************************)
(* odf2fountain.py: OdtXmlTextHandler, the spans of a paragraph as the     *)
(* parser gives them to the handler: <text:span>, characters and           *)
(* </text:span> within <text:p> and </text:p>.  content.xml declares the   *)
(* automatic text style of a span before the paragraphs; it has no parent  *)
(* style name, so its parent is Standard.                                  *)
(***************************************************************************)
MaxSpans == 2

Flags == {"bold", "italic", "underline"}

\* the flags of a style that are true as conditions
StyleFlagsOf(new_style) == {f \in Flags : Truthy(new_style[f])}

\* OdtStyle.all_styles.get(value, self.current_style) for the automatic style
\* with the text properties of settings
SpanStyle(settings) ==
    AutomaticStyle([name |-> "T1", props |-> StyleProperties(settings)])

\* the handler after startElementNS for a span; span_log and span_stack take
\* up the span and the span around it is marked as holding a span
SpanStarted(rs, new_style) ==
    /\ text_data' = rs.data
    /\ spans' = rs.spans
    /\ span_log' =
         Append([k \in 1..Len(span_log) |->
                    IF span_stack # <<>> /\ k = span_stack[Len(span_stack)]
                    THEN [span_log[k] EXCEPT !.nested = TRUE] ELSE span_log[k]],
                [flags |-> StyleFlagsOf(new_style),
                 open_text |-> rs.data[Len(rs.data)],
                 close_text |-> rs.spans[Len(rs.spans)],
                 nested |-> FALSE, ended |-> None])
    /\ span_stack' = Append(span_stack, Len(span_log) + 1)

\* OdtXmlTextHandler.startElementNS for <text:span text:style-name=...>
startElementNS_text_span(settings) ==
    /\ pc = "paragraph"
    /\ Len(span_log) < MaxSpans
    /\ SpanStarted(startElementNS_span([data |-> text_data, spans |-> spans],
                                       SpanStyle(settings)),
                   SpanStyle(settings))
    /\ UNCHANGED resolver_vars
    /\ UNCHANGED <<forcetypes, extendedfountain, state, groups, in_text,
                   last_line_blank, last_rule, last_character, body_types,
                   paragraphs, previous_style>>
    /\ UNCHANGED <<codec_vars, engine_vars, lib_vars, post_vars>>

\* OdtXmlTextHandler.characters(chars) between the tags of a paragraph: the
\* parser gives the text between two tags in one call
characters_span(chars) ==
    /\ pc = "paragraph"
    /\ in_text > 0
    /\ IF text_data = <<>> THEN TRUE ELSE text_data[Len(text_data)] # chars
    /\ text_data' = characters([data |-> text_data, spans |-> spans], chars).data
    /\ UNCHANGED resolver_vars
    /\ UNCHANGED <<forcetypes, extendedfountain, state, groups, in_text,
                   last_line_blank, last_rule, last_character, body_types,
                   paragraphs, previous_style>>
    /\ UNCHANGED <<codec_vars, engine_vars, lib_vars, post_vars, span_vars>>

\* OdtXmlTextHandler.endElementNS for </text:span>: the end of the innermost
\* span that is open
endElementNS_text_span ==
    /\ pc = "paragraph"
    /\ span_stack # <<>>
    /\ text_data' = endElementNS_span([data |-> text_data, spans |-> spans]).data
    /\ spans' = endElementNS_span([data |-> text_data, spans |-> spans]).spans
    /\ span_log' = [span_log EXCEPT ![span_stack[Len(span_stack)]].ended =
                                        Some(text_data'[Len(text_data')])]
    /\ span_stack' = SubSeq(span_stack, 1, Len(span_stack) - 1)
    /\ UNCHANGED resolver_vars
    /\ UNCHANGED <<forcetypes, extendedfountain, state, groups, in_text,
                   last_line_blank, last_rule, last_character, body_types,
                   paragraphs, previous_style>>
    /\ UNCHANGED <<codec_vars, engine_vars, lib_vars, post_vars>>

\* the content.xml of the model holds one Action paragraph, which ends when
\* its spans have ended
SpanNext ==
    \/ odtFileDecode(FALSE, FALSE)
    \/ paragraphs = 0 /\ startElementNS_p("Action")
    \/ \E settings \in SUBSET Flags : startElementNS_text_span(settings)
    \/ characters_span(<<"x">>)
    \/ endElementNS_text_span
    \/ span_stack = <<>> /\ endElementNS_p

SpanSpec == Init /\ [][SpanNext]_vars

\* the markers of a set of flags, in the order underline, bold, italic
Marker(flags) ==
    (IF "underline" \in flags THEN <<"_">> ELSE <<>>)
    \o (IF "bold" \in flags THEN <<"*", "*">> ELSE <<>>)
    \o (IF "italic" \in flags THEN <<"*">> ELSE <<>>)

Reverse(s) == [i \in 1..Len(s) |-> s[Len(s) + 1 - i]]

\* C25: for a span whose style has the flags bold, italic, underline the
\* reader puts out the opening marker _ if underline, then ** if bold, then *
\* if italic (after a space when the text before does not end with one), and
\* the closing marker it computes is the exact reverse; a span that holds no
\* other span ends with that closing marker
C25_MarkerOrder ==
    \A k \in 1..Len(span_log) :
        /\ span_log[k].open_text \in {Marker(span_log[k].flags),
                                      <<" ">> \o Marker(span_log[k].flags)}
        /\ span_log[k].close_text = Reverse(Marker(span_log[k].flags))
        /\ span_log[k].ended # None /\ ~span_log[k].nested =>
              span_log[k].ended[1] = Reverse(Marker(span_log[k].flags))

\* a paragraph with one span of a bold, italic and underlined style around x
\* has been read: its line ends with _***x***_
C25_Witness ==
    /\ pc = "text"
    /\ Len(span_log) = 1
    /\ span_log[1].flags = Flags
    /\ \E g \in {TITLES, BODY} :
          /\ Len(groups[g]) > 0
          /\ Suffix(groups[g][Len(groups[g])], 9) =
                <<"_", "*", "*", "*", "x", "*", "*", "*", "_">>

\* C26: the end of every span appends the closing marker that was computed
\* with the opening marker at the start of that span, also for a span that
\* holds another span
C26_BalancedMarkers ==
    \A k \in 1..Len(span_log) :
        span_log[k].ended # None => span_log[k].ended[1] = span_log[k].close_text

(***************************************************************************)
(* C27, C28: page breaks in the write direction                            *)
(***************************************************************************)
\* the line of this turn of the main loop begins with ===
PageBreakLine ==
    /\ pc = "body"
    /\ Prefix(lines[linenr + 1], 3) = <<"=", "=", "=">>

\* C27: a turn of the main loop on a line that begins with === appends no
\* paragraph and sets page_break_required, whatever the state of the engine
C27_Step ==
    PageBreakLine =>
        /\ err' = ""
        /\ docbody' = docbody
        /\ page_break_required'

C27_PageBreakLine == [][C27_Step]_vars

\* files with a page break between two paragraphs: a line, ===, a blank
\* line, a line and a blank line; and files with a title block before a line
PageBreakFirst ==
    { <<".", "S">>, <<">", "A", ":">>, <<"H", "i">>, <<"@", "B">>, <<"(", "x", ")">> }
PageBreakNextLines ==
    { <<"@", "B">>, <<"I", "N", "T", ".", " ", "A">>, <<"H", "i">>, <<".", "S">>,
      <<">", "A", ":">> }
PageBreakFiles ==
    { << first, <<"=", "=", "=">>, <<>>, following, <<>> >> :
        first \in PageBreakFirst, following \in PageBreakNextLines }
    \cup { << <<"T", ":", "x">>, <<>>, following, <<>> >> :
             following \in PageBreakNextLines }

PageBreakNext ==
    \/ \E texts \in PageBreakFiles : \E final_newline \in BOOLEAN :
          process_file_contents(texts, final_newline)
    \/ MainLoop

PageBreakSpec == Init /\ [][PageBreakNext]_vars

\* the styles that start a page: the PB variants, and the after-title
\* variants, whose master page starts the body on a new page
PageBreakStyles ==
    {"Scene_20_Heading_20_PB", "Character_20_PB", "Action_20_PB", "Notes_20_PB",
     "Centered_20_PB", "Parenthetical_20_PB", "Transition_20_PB",
     "Dialogue_20_PB", "Lyrics_20_PB"}
AfterTitleStyles == {"Action_20_ATi", "Scene_20_Heading_20_ATi"}

\* C28: when page_break_required is set, the next paragraph add_line emits
\* has the page-break variant of its style (the after-title variant after a
\* title block), and page_break_required is false after it
C28_Step ==
    pc = "body" /\ page_break_required /\ err' = "" /\ Len(Emitted) > 0 =>
        /\ Emitted[1].style \in PageBreakStyles \cup AfterTitleStyles
        /\ ~page_break_required'

C28_PageBreakApplied == [][C28_Step]_vars


(***************************************************************************)
(* C29: dialogue after a character name, a parenthetical or a note         *)
(***************************************************************************)
\* files with a line that is followed by lines without a sigil
DialogueFiles ==
    { << first, a, b, c, <<>> >> :
        first \in { <<"@", "B">>, <<"(", "x", ")">>, <<"[", "[", "n", "]", "]">> },
        a \in { <<"H", "i">>, <<"a", " ", "b">> },
        b \in { <<"t", "h", "e", "r", "e">>, <<"(", "x", ")">>, <<>> },
        c \in { <<"n", "o", "w">>, <<>>, <<".", "S">> } }

DialogueNext ==
    \/ \E texts \in DialogueFiles : \E final_newline \in BOOLEAN :
          process_file_contents(texts, final_newline)
    \/ MainLoop

DialogueSpec == Init /\ [][DialogueNext]_vars

\* the number of lines from lines[i] on that begin with a letter or a digit
RECURSIVE RunLength(_)
RunLength(i) ==
    IF i <= Len(lines) /\ lines[i] # <<>> /\ isalnum(lines[i][1])
    THEN 1 + RunLength(i + 1) ELSE 0

\* the current line reaches line 602-603 of process_file_contents: it begins
\* with a letter or a digit, is no scene heading and no name in capitals,
\* and the last style is Character, Parenthetical or Notes
DialogueLine ==
    /\ pc = "body"
    /\ isalnum(lines[linenr + 1][1])
    /\ ~IsSceneLine(lines[linenr + 1])
    /\ ~last_blank
    /\ last_style \in {"Character", "Parenthetical", "Notes"}

\* C29: a line without a sigil after a Character, Parenthetical or Notes
\* paragraph and the lines after it that begin with a letter or a digit give
\* exactly one Dialogue paragraph, and the main loop goes on behind them
C29_Step ==
    DialogueLine /\ err' = "" =>
        /\ Len(Emitted) = 1
        /\ Emitted[1].style = "Dialogue"
        /\ linenr' = linenr + RunLength(linenr + 1)

C29_DialogueContinuation == [][C29_Step]_vars


(***************************************************************************)
(* C30: the first line of the body after a title block                     *)
(***************************************************************************)
MaxBlankLines == 2

\* n empty lines
BlankLines(n) == [i \in 1..n |-> <<>>]

\* files with a title block, up to MaxBlankLines blank lines and a line of
\* the body
AfterTitleFiles ==
    { << first >> \o BlankLines(n) \o << following, <<>> >> :
        first \in { <<"T", ":", "x">>, <<"T", "i", "t", "l", "e", ":", "x">>,
                    <<"a", ":", "b">> },
        n \in 0..MaxBlankLines,
        following \in { <<"H", "i">>, <<"!", "H", "i">>, <<">", "H", "i", "<">>,
                        <<".", "S">>, <<"@", "B">> } }

AfterTitleNext ==
    \/ \E texts \in AfterTitleFiles : \E final_newline \in BOOLEAN :
          process_file_contents(texts, final_newline)
    \/ MainLoop

AfterTitleSpec == Init /\ [][AfterTitleNext]_vars

\* the styles of the paragraphs process_titles emits
TitleBlockStyles == {"Title", "Title Line", "Title Line Centered"}

\* line goes to add_line as Action or as Centered when the last style is
\* not Character, Parenthetical or Notes: the sigil !, the sigil > on a line
\* that does not end with a colon, or a line that begins with a letter or a
\* digit and is no scene heading and not in capitals
ActionOrCentered(line) ==
    \/ line[1] = "!"
    \/ line[1] = ">" /\ line[Len(line)] # ":"
    \/ isalnum(line[1]) /\ ~IsSceneLine(line) /\ upper(line) # line

\* the main loop is at the first line after a title block that is not
\* blank, and the line resolves to Action or Centered
FirstAfterTitles ==
    /\ pc = "body"
    /\ docbody # <<>>
    /\ \A j \in 1..Len(docbody) : docbody[j].style \in TitleBlockStyles
    /\ rstrip(lines[linenr + 1], {"\n", "\r"}) # <<>>
    /\ ActionOrCentered(rstrip(lines[linenr + 1], {"\n", "\r"}))

\* C30: the first line of the body after a title block that resolves to
\* Action or Centered is emitted with the style Action ATi and blank is true
\* after it, with any number of blank lines between the title block and it
C30_Step ==
    FirstAfterTitles /\ err' = "" =>
        /\ Len(Emitted) = 1
        /\ Emitted[1].style = "Action_20_ATi"
        /\ blank'

C30_AfterTitle == [][C30_Step]_vars

(***************************************************************************)
(* C31: the upper-case rule of process_file_contents                       *)
(***************************************************************************)
\* files with a line, a line in capitals or not, and the line after it
UpperFiles ==
    { << first, middle, following, <<>> >> :
        first \in { <<>>, <<".", "S">>, <<"H", "i">>, <<"@", "B">>, <<">", "A", ":">> },
        middle \in { <<"B", "O", "B">>, <<"C", "U", "T", " ", "T", "O", ":">>,
                     <<"I", "N", "T", ".", " ", "A">>, <<"A", "1">>, <<"B", "o", "b">> },
        following \in { <<>>, <<"H", "i">>, <<"(", "x", ")">> } }

UpperNext ==
    \/ \E texts \in UpperFiles : \E final_newline \in BOOLEAN :
          process_file_contents(texts, final_newline)
    \/ MainLoop

UpperSpec == Init /\ [][UpperNext]_vars

\* the current line of the main loop, as line 582 strips it
CurrentLine == rstrip(lines[linenr + 1], {"\n", "\r"})

\* the current line has no sigil and is all in capitals: it is not blank, no
\* key of start_to_method, no note and no parenthetical, and upper() leaves
\* it as it is
UpperLine ==
    /\ pc = "body"
    /\ strip(CurrentLine, Whitespace) # <<>>
    /\ CurrentLine[1] \notin {"!", "@", "%", "'", "~", "(", ".", ">"}
    /\ Prefix(CurrentLine, 2) # <<"[", "[">>
    /\ strip(CurrentLine, Whitespace)[1] # "("
    /\ upper(CurrentLine) = CurrentLine

\* the styles add_line gives a Character and a Transition paragraph
CharacterStyles == {"Character", "Character_20_PB"}
TransitionStyles == {"Transition", "Transition_20_PB"}

\* C31: a line without a sigil that is all in capitals, after a blank
\* paragraph and before a line that is not blank, is emitted as Transition
\* when it ends with TO: and as Character otherwise; when the paragraph
\* before was not blank or the line after is blank it is emitted neither as
\* Character nor as Transition
C31_Step ==
    UpperLine /\ err' = "" =>
        IF last_blank /\ ~BlankAfter(linenr + 1)
        THEN /\ Len(Emitted) = 1
             /\ IF Suffix(CurrentLine, 3) = <<"T", "O", ":">>
                THEN Emitted[1].style \in TransitionStyles /\ style' = "Transition"
                ELSE Emitted[1].style \in CharacterStyles /\ style' = "Character"
        ELSE \A j \in 1..Len(Emitted) :
                Emitted[j].style \notin CharacterStyles \cup TransitionStyles

Appended == SubSeq(docbody', Len(docbody) + 1, Len(docbody'))

\* the paragraph add_line makes for a pending blank line, Paragraph(' ')
BlankParagraph == [style |-> "", text |-> <<" ">>]

\* C32: a blank paragraph is emitted only as the first paragraph of a turn
\* of the main loop, when a blank line of the input was pending, right
\* before a paragraph whose style has no space before it, and never after
\* another blank paragraph
C32_Step ==
    \A j \in 1..Len(Appended) :
        Appended[j] = BlankParagraph =>
            /\ j = 1
            /\ pc = "body"
            /\ blank_pending
            /\ linenr >= 1 /\ strip(lines[linenr], Whitespace) = <<>>
            /\ Len(Appended) >= 2
            /\ Appended[2] # BlankParagraph
            /\ Appended[2].style \notin SpaceBeforeStyles
            /\ IF docbody = <<>> THEN TRUE
               ELSE docbody[Len(docbody)] # BlankParagraph

C32_BlankParagraphPolicy == [][C32_Step]_vars

\* a file is done in which a blank line between two lines of text gave a
\* blank paragraph between two Action paragraphs
C32_Witness ==
    /\ pc = "done"
    /\ Len(docbody) = 3
    /\ docbody[1].style = "Action"
    /\ docbody[2] = BlankParagraph
    /\ docbody[3].style = "Action"

\* files with two lines of action and one to MaxBlankLines blank lines
\* between them
BlankRunFiles ==
    { << first >> \o BlankLines(n) \o << following >> :
        first \in { <<"H", "i">>, <<"!", "H", "i">>, <<"a", " ", "b">>, <<"x">> },
        n \in 1..MaxBlankLines,
        following \in { <<"H", "i">>, <<"!", "H", "i">>, <<"a", " ", "b">>, <<"x">> } }

BlankRunNext ==
    \/ \E texts \in BlankRunFiles : \E final_newline \in BOOLEAN :
          process_file_contents(texts, final_newline)
    \/ MainLoop

BlankRunSpec == Init /\ [][BlankRunNext]_vars

\* C37: a run of one or more blank lines between two Action lines gives
\* exactly one blank paragraph between the two Action paragraphs, whatever
\* the length of the run
C37_OneBlankParagraph ==
    /\ pc = "done"
    /\ err = ""
    /\ \E texts \in BlankRunFiles : \E final_newline \in BOOLEAN :
          file_lines = Readlines(texts, final_newline)
    => /\ Len(docbody) = 3
       /\ docbody[1].style = "Action"
       /\ docbody[2] = BlankParagraph
       /\ docbody[3].style = "Action"

(***************************************************************************)
(* C33: blank lines around the lines of the body, read direction           *)
(***************************************************************************)
\* the fountain types of the rules that declare blank_before and blank_after
BlankBeforeTypes == {"CHARACTER", "SCENE_HEADING", "TRANSITION"}
BlankAfterTypes == {"SCENE_HEADING", "TRANSITION"}

\* C33: in the body every line put out for a rule with blank_before is the
\* first line or comes right after a blank line, and every line put out for
\* a rule with blank_after is followed by a blank line
C33_BlankLinesAround ==
    \A i \in 1..Len(body_types) :
        /\ body_types[i] \in BlankBeforeTypes =>
              IF i = 1 THEN TRUE
              ELSE strip(groups[BODY][i - 1], Whitespace) = <<>>
        /\ body_types[i] \in BlankAfterTypes =>
              IF i = Len(body_types) THEN FALSE
              ELSE strip(groups[BODY][i + 1], Whitespace) = <<>>

(***************************************************************************)
(* C34: the markers of a forced type, read direction                       *)
(***************************************************************************)
\* the text endElementNS gives to outputFountainPart
ParagraphLine == UppercaseLine(objs[current_style[1]], Join(text_data))

\* line wrapped in the prefix and the suffix of rule itself when the markers
\* are forced and line does not begin with the prefix
OwnMarkers(rule, line) ==
    IF (forcetypes \/ rule.always_required)
       /\ Prefix(line, Len(rule.prefix)) # rule.prefix
    THEN rule.prefix \o strip(line, Whitespace) \o rule.suffix
    ELSE line

\* the place in the body of the line of the paragraph after this step
OwnIndex == Len(body_types') - (IF ParagraphRule.blank_after THEN 1 ELSE 0)

\* C34: when the markers are forced the line of a body paragraph is the
\* prefix of its rule, the stripped text and the suffix of its rule; the
\* Character placeholder put out before a paragraph that needs one is @ and
\* the last name, with the (empty) suffix of the Character rule
C34_Step ==
    BodyParagraph =>
        /\ groups'[BODY][OwnIndex] =
              OwnMarkers(ParagraphRule,
                         CharacterLine(Handler, ParagraphRule, ParagraphLine))
        /\ PredecessorMissing =>
              groups'[BODY][OwnIndex - 1] =
                  OwnMarkers(fountain_rules("Character"), last_character)

C34_ForcedMarkers == [][C34_Step]_vars

(***************************************************************************)
(* C35: odf2fountain_main, the text written to the output file             *)
(***************************************************************************)
\* '\n'.join(collection)
RECURSIVE JoinLines(_)
JoinLines(collection) ==
    IF collection = <<>> THEN <<>>
    ELSE IF Len(collection) = 1 THEN collection[1]
    ELSE collection[1] \o <<"\n">> \o JoinLines(Tail(collection))

\* odf2fountain_main, lines 562-566: outstring for the groups of a file
outstring(r) ==
    (IF Len(r[TITLES]) > 0 THEN JoinLines(r[TITLES]) \o <<"\n">> ELSE <<>>)
    \o JoinLines(r[BODY]) \o <<"\n">>

\* C35: the text written for the lines read so far ends with a newline,
\* and when there are title lines the line after the last title line is
\* blank, whatever the first line of the body is
C35_OutputAssembly ==
    pc = "text" =>
        /\ outstring(groups)[Len(outstring(groups))] = "\n"
        /\ groups[TITLES] # <<>> =>
              strip(split(outstring(groups), <<"\n">>)[Len(groups[TITLES]) + 1],
                    Whitespace) = <<>>

(***************************************************************************)
(* C36: the document state of the reader                                   *)
(***************************************************************************)
\* endElementNS ends a paragraph with a current style and raises nothing
ParagraphEnds ==
    /\ pc = "paragraph"
    /\ pc' # "paragraph"
    /\ current_style # None
    /\ err' = ""

\* the style of the paragraph is flagged is_title
TitleStyle == Truthy(objs[current_style[1]].is_title)

\* the state after lines 450-458, before the text is looked at: Titles for
\* a title style, Body for a page_break style, else the state as it was
StateAfterStyle ==
    IF TitleStyle THEN TITLES
    ELSE IF Truthy(objs[current_style[1]].page_break) THEN BODY
    ELSE state

\* no line goes to the output in this step
NothingEmitted == groups' = groups

\* nothing but the page break marker goes to the output in this step
OnlyMarkerEmitted ==
    \/ groups' = groups
    \/ groups' = [groups EXCEPT ![BODY] = Append(@, PageBreakMarker)]

\* C36 as stated: the state never returns to Starting; text that is not
\* empty in Starting moves the state to Titles; an empty paragraph outside
\* Starting moves the state to Body and emits no line; a paragraph with a
\* title style moves the state to Titles from any state
C36_Step ==
    ParagraphEnds =>
        /\ state # STARTING => state' # STARTING
        /\ state = STARTING /\ Join(text_data) # <<>> => state' = TITLES
        /\ state # STARTING /\ Join(text_data) = <<>> =>
              state' = BODY /\ NothingEmitted
        /\ TitleStyle => state' = TITLES

\* no line is ever appended to a collection while the state is Starting
C36_Always == groups[STARTING] = <<>> /\ (state = STARTING => groups[TITLES] = <<>> /\ groups[BODY] = <<>>)

C36_DocumentState == []C36_Always /\ [][C36_Step]_vars

\* C36 amended: the flags of the style act first (a title style gives
\* Titles, a page_break style Body), then the text: an empty paragraph
\* leaves Starting as it is and turns every other state into Body, and puts
\* out nothing but the page break marker of its style; a paragraph with text
\* turns Starting into Titles; the state never returns to Starting and
\* nothing is in the output while the state is Starting
C36_AmendedStep ==
    ParagraphEnds =>
        /\ state # STARTING => state' # STARTING
        /\ Join(text_data) # <<>> =>
              state' = IF StateAfterStyle = STARTING THEN TITLES
                       ELSE StateAfterStyle
        /\ Join(text_data) = <<>> =>
              /\ state' = IF StateAfterStyle = STARTING THEN STARTING ELSE BODY
              /\ OnlyMarkerEmitted
              /\ ~PageBreakStyle => NothingEmitted

C36_StateAfterParagraph == []C36_Always /\ [][C36_AmendedStep]_vars

\* an empty paragraph with a title style was read after a title line: the
\* state is Body and the output holds the title line alone
C36_Witness ==
    /\ pc = "text"
    /\ paragraphs = 2
    /\ current_style = Some("Title_20_Line")
    /\ state = BODY
    /\ Len(groups[TITLES]) = 1
    /\ groups[BODY] = <<>>

(***************************************************************************)
(* C38: parentheticals in the write direction                              *)
(***************************************************************************)
\* files with a parenthetical, at the start of its line or after white space
ParentheticalFiles ==
    { << first, middle, following >> :
        first \in { <<>>, <<"@", "B">>, <<"H", "i">>, <<".", "S">> },
        middle \in { <<"(", "x", ")">>, <<" ", "(", "x", ")">>,
                     <<"\t", "(", "y", " ", "z", ")">>, <<" ", " ", "(", "x">> },
        following \in { <<>>, <<"H", "i">>, <<"b">> } }

ParentheticalNext ==
    \/ \E texts \in ParentheticalFiles : \E final_newline \in BOOLEAN :
          process_file_contents(texts, final_newline)
    \/ MainLoop

ParentheticalSpec == Init /\ [][ParentheticalNext]_vars

\* the first character of the current line that is not white space is (
ParentheticalLine ==
    /\ pc = "body"
    /\ strip(CurrentLine, Whitespace) # <<>>
    /\ strip(CurrentLine, Whitespace)[1] = "("

\* C38: a line whose first character that is not white space is ( is emitted
\* as one Parenthetical paragraph with the whole text of the line, the white
\* space before it aside
C38_Step ==
    ParentheticalLine /\ err' = "" =>
        /\ Len(Emitted) = 1
        /\ Emitted[1].style \in {"Parenthetical", "Parenthetical_20_PB"}
        /\ Emitted[1].text = lstrip(CurrentLine, Whitespace)

C38_ParentheticalText == [][C38_Step]_vars

(***************************************************************************)
(* C39: the styles add_line emits and the catalogue of the writer          *)
(***************************************************************************)
\* lines of every type of the body, a page break, a title and a blank line
CatalogueLines ==
    { <<>>, <<"=", "=", "=">>, <<"T", ":", "x">>, <<".", "S">>, <<"@", "B">>,
      <<"'", "a">>, <<"~", "l">>, <<"(", "x", ")">>, <<">", "A", ":">>,
      <<">", "c", "<">>, <<"[", "[", "n", "]", "]">>, <<"H", "i">> }

CatalogueNext ==
    \/ \E texts \in [1..MaxLines -> CatalogueLines] : \E final_newline \in BOOLEAN :
          process_file_contents(texts, final_newline)
    \/ MainLoop

CatalogueSpec == Init /\ [][CatalogueNext]_vars

\* the names of needed_styles_list
NeededStyles == KnownStyles \ {"Standard"}

\* the styles add_line is called with
RequestedTypes ==
    {"Action", "Character", "Dialogue", "Lyrics", "Parenthetical",
     "Scene Heading", "Transition", "Centered", "Notes"}

\* the values of style_replacement
ReplacementTargets ==
    { style_replacement(previous, requested)[1] :
        <<previous, requested>> \in
            { pair \in (RequestedTypes \cup {"Title Line"}) \X RequestedTypes :
                style_replacement(pair[1], pair[2]) # None } }

\* every name add_line can give a paragraph
Emittable ==
    { internal_style_name(t) : t \in RequestedTypes }
    \cup { internal_style_name(t \o " PB") : t \in RequestedTypes }
    \cup { internal_style_name(t) : t \in ReplacementTargets }

C39_Step ==
    pc = "body" =>
        \A j \in 1..Len(Emitted) : Emitted[j].style \in NeededStyles

\* C39: the nine requested types, their PB variants and the targets of
\* style_replacement are all names of needed_styles_list, and no paragraph
\* that add_line emits for a line of the body has a style outside it
C39_StylesInCatalogue == [](Emittable \subseteq NeededStyles) /\ [][C39_Step]_vars

\* a page break and then a line of lyrics gave a paragraph with the style
\* Lyrics_20_PB
C39_Witness ==
    /\ pc = "done"
    /\ docbody = <<[style |-> "Lyrics_20_PB", text |-> <<"l">>]>>

(***************************************************************************)
(* C40: progress of process_file_contents                                  *)
(***************************************************************************)
\* a turn of the main loop as the position of the call and the cursor show
\* it: the call is in the loop, and after the turn it is in the loop, at its
\* end or ended by an exception, with the cursor somewhere in the file
CursorTurn ==
    /\ pc = "body"
    /\ pc' \in {"body", "done", "crashed"}
    /\ linenr' \in 0..(Len(lines) + 1)

\* the engine with its main loop always taking its next turn.  Every step
\* of MainLoop changes pc or linenr (C40_Step below checks it), so the
\* fairness of MainLoop is written on these two variables.
ProgressSpec == Init /\ [][EngineNext]_vars /\ WF_<<pc, linenr>>(CursorTurn)

\* the call has come to its end, by return or by an exception
FileEnded == pc \in {"done", "crashed"}

\* the paragraphs of a body that are not the blank paragraph
TextParagraphs(body) == Len(SelectSeq(body, LAMBDA p : p # BlankParagraph))

C40_Step ==
    /\ pc = "idle" /\ pc' # "idle" =>
          /\ linenr' >= 0
          /\ Len(docbody') - Len(docbody) <= linenr'
    /\ pc = "body" =>
          /\ linenr < maxline /\ maxline <= Len(lines)
          /\ linenr' >= linenr
          /\ err' = "" => linenr' > linenr
          /\ err' # "" => pc' = "crashed"
          /\ pc' = "body" => linenr' < maxline
          /\ lines' = lines /\ maxline' = maxline
          /\ err' = "" /\ linenr' > linenr + 1 =>
                TextParagraphs(docbody') - TextParagraphs(docbody)
                    = linenr' - linenr

\* C40: process_file_contents comes to its end on every file; the line
\* cursor never moves back and every turn of the main loop that raises
\* nothing moves it forward, past the lines the merge loop took, each of
\* which made one paragraph, so that no line is the current line twice; the
\* title loop leaves the cursor behind the lines it made paragraphs of
C40_WriteProgress == [][C40_Step]_vars /\ [](pc = "body" => <>FileEnded)

\* a file is done whose second line was taken into the Dialogue of the
\* first by the merge loop
C40_Witness ==
    /\ pc = "done"
    /\ err = ""
    /\ linenr = 2 /\ maxline = 2
    /\ Len(docbody) = 2
    /\ docbody[1].style = "Dialogue"
    /\ docbody[2].style = "Dialogue"

====
